---- MODULE Spec2Model ----
(***************************************************************************)
(* A model of the news scraper's extraction-and-collection pipeline:       *)
(*   - the HTTP fetch routines (prothomalo.request_with_retries and the    *)
(*     _make_request of the site scrapers),                                *)
(*   - the concurrent harvest loop of prothomalo.scrape_today,             *)
(*   - the sequential harvest loop of the site scrapers (scrape_articles   *)
(*     of the Prothom Alo and Ittefaq scrapers) and scrape_single_site,    *)
(*   - the Bengali date conversion of the Ittefaq scraper,                 *)
(*   - the sitemap harvest of prothomalo.gather_articles_from_sitemaps,    *)
(*   - the file cache of the package (SimpleCache),                        *)
(*   - the validity check of the package's Article,                        *)
(*   - the discovery phases of prothomalo.scrape_today and their GETs,     *)
(*   - the exit status of the three entry points,                          *)
(*   - the breadth-first crawl of prothomalo.crawl_for_article_urls.       *)
(* Each part has its own specification (SpecFetch, SpecToday, SpecPkg,     *)
(* SpecDate, SpecSitemap, SpecCache, SpecValid, SpecRun, SpecExit,         *)
(* SpecCrawl, and SpecCrawlFair for the termination of the crawl); the     *)
(* variables of the other parts stay idle.                                 *)
(***************************************************************************)
EXTENDS Integers, Sequences, FiniteSets, TLC

VARIABLES
    \* ---- one call of a fetch routine ----
    fRoutine,    \* which routine runs: "rwr", "mk_base", "mk_legacy", or "idle"
    fRetries,    \* the retries / max_retries argument of the call
    fServer,     \* what the server answers to the next GET of the call
    fAttempt,    \* the loop variable `attempt` of the pass about to run
    fStatuses,   \* the outcomes of the GETs issued so far, in order
    fWaits,      \* the back-off sleeps made so far, one per failed pass
    fResult,     \* "pending", "resp", "none" (returned None) or "raise"
    fPage,       \* the page of the response that fetch_and_parse parsed
    fArticle,    \* what fetch_and_parse returned: Pending, None or an Article
    \* ---- one call of prothomalo.scrape_today ----
    tDryRun,     \* the dry_run argument
    tLimit,      \* the limit argument (0: unlimited)
    tWorkers,    \* the max_workers argument
    tBdTz,       \* BD_TZ: "dhaka" (zoneinfo or pytz at hand) or "none"
    tCandidates, \* candidate_urls, as gathered by discovery
    tPc,         \* where the orchestrating thread is
    tFetchList,  \* fetch_list, the worklist
    tState,      \* per worklist URL, its future: "queued", "running", "done"
    tResult,     \* per worklist URL, what its future holds once done
    tConsumed,   \* the futures that as_completed has handed to the loop
    tArticles,   \* the list `articles`
    tPersisted,  \* what persist() wrote
    \* ---- one call of scrape_articles of a site scraper ----
    pImpl,       \* "mk_base" (package), "mk_legacy" (scraper.py), or "idle"
    pLimit,      \* the limit argument (0: all)
    pPc,         \* "home", "sections", "loop", "returned" or "raised"
    pLinks,      \* the list `links` of get_article_links, then article_links
    pSection,    \* the index of the next section of the section loop
    pIndex,      \* the index of the next link of the harvest loop
    pArticles,   \* the list `articles`
    pFailed,     \* the page whose failed fetch left scrape_articles as an exception
    pSkipped,    \* the links that the harvest loop passed without an article
    pSite,       \* the scraper class: "prothomalo", "ittefaq", or "idle"
    pFound,      \* len of the list of get_article_links before its final slice
    pCalls,      \* the links passed to scrape_article so far, in order
    pResult,     \* what scrape_single_site returned, once it has
    \* ---- one call of _convert_bengali_date ----
    dDay,        \* the day of the month that the page prints
    dMonth,      \* its month, 1..12
    dYear,       \* its year
    dTime,       \* its time of day, or NoTime
    dInput,      \* the argument bengali_date: the date as the page prints it
    dResult,     \* what the call returned
    \* ---- one call of gather_articles_from_sitemaps ----
    sLimit,      \* the limit argument (0: unlimited)
    sPc,         \* "robots", "sitemaps" or "returned"
    sUrls,       \* the number of sitemap URLs that robots.txt lists
    sIndex,      \* the index of the next sitemap of the loop
    sArticleUrls,\* the set article_urls
    sDatedToday, \* the article locs that a read sitemap entry dates today
    \* ---- one ArticleCache and its directory ----
    cEnabled,    \* Config.CACHE_ENABLED
    cDuration,   \* self.cache_duration, in hours
    cNow,        \* datetime.now(), in hours since the cache was made
    cFiles,      \* per cache key, the file <key>.json of the directory, or NoFile
    cLast,       \* per url, the article and hour of the last set() since clear()
    cOp,         \* the last call: its name, its url and what it returned
    \* ---- one Article of the package, built and then validated ----
    vTitle,      \* the title argument of Article(...)
    vContent,    \* the content argument
    vUrl,        \* the url argument
    vPc,         \* "new", "built" (after __post_init__) or "checked"
    vArticle,    \* the Article once built
    vValid,      \* what is_valid() returned
    \* ---- the requests and sleeps of one call of prothomalo.scrape_today ----
    rDryRun,     \* the dry_run argument
    rMode,       \* the mode argument
    rLimit,      \* the limit argument (0: unlimited)
    rMaxDelay,   \* the max_delay argument, in tenths of a second
    rPc,         \* where the calling thread is
    rSeed,       \* the index of the next seed of the seed loop
    rCrawled,    \* the pages that the running crawl_for_article_urls has requested
    rCrawlUrls,  \* its article_urls
    rSitemaps,   \* the sitemaps that the running gather_articles_from_sitemaps has left
    rSitemapUrls,\* its article_urls
    rCandidates, \* candidate_urls
    rLast,       \* what the calling thread did last: "nosleep" or "backoff"
    rGets,       \* the GETs issued so far: their phase and what preceded them
    rState,      \* per worklist URL, its future: "queued", "running", "done"
    rDone,       \* the discovery phases that have returned
    \* ---- one run of a command entry point ----
    eEntry,      \* "prothomalo" (prothomalo.main), "pkg_cli" or "legacy_cli" (click)
    eRun,        \* the --run flag of the click commands
    eCacheOp,    \* pkg_cli: "stats" (--cache-stats), "clear" (--clear-cache) or "none"
    eSite,       \* pkg_cli: "all" (--site=all) or "one"
    eOutput,     \* the output format asked for: "json" or "csv"
    eSaved,      \* the format of the file written, or "none"
    ePc,         \* "start", "scrape", "save" or "exited"
    eSitesLeft,  \* the sites still to scrape
    eResults,    \* len(all_results)
    eCause,      \* what ended the run: "none", "interrupt" or "error"
    eCode,       \* the exit status of the process once exited
    \* ---- one call of crawl_for_article_urls ----
    kLimit,      \* the limit argument
    kMaxPages,   \* the max_pages argument
    kMaxDepth,   \* the max_depth argument
    kQueue,      \* the list `queue` of (url, depth) pairs
    kVisited,    \* the set visited_pages
    kArticleUrls, \* the set article_urls
    kPc,         \* "loop" (at `while queue`), "returned", or "idle"
    kFetched,    \* the (url, depth) pairs handed to request_with_retries, in order
    kMinDepth    \* per page, the smallest depth it was enqueued with (NoDepth: never)

fetchVars == <<fRoutine, fRetries, fServer, fAttempt, fStatuses, fWaits,
               fResult, fPage, fArticle>>

todayVars == <<tDryRun, tLimit, tWorkers, tBdTz, tCandidates, tPc, tFetchList, tState,
               tResult, tConsumed, tArticles, tPersisted>>

pkgVars == <<pImpl, pLimit, pPc, pLinks, pSection, pIndex, pArticles, pFailed,
             pSkipped, pSite, pFound, pCalls, pResult>>

dateVars == <<dDay, dMonth, dYear, dTime, dInput, dResult>>

sitemapVars == <<sLimit, sPc, sUrls, sIndex, sArticleUrls, sDatedToday>>

cacheVars == <<cEnabled, cDuration, cNow, cFiles, cLast, cOp>>

validVars == <<vTitle, vContent, vUrl, vPc, vArticle, vValid>>

runVars == <<rDryRun, rMode, rLimit, rMaxDelay, rPc, rSeed, rCrawled, rCrawlUrls, rSitemaps, rSitemapUrls, rCandidates, rLast, rGets, rState, rDone>>

exitVars == <<eEntry, eRun, eCacheOp, eSite, eOutput, eSaved, ePc, eSitesLeft, eResults, eCause, eCode>>

crawlVars == <<kLimit, kMaxPages, kMaxDepth, kQueue, kVisited, kArticleUrls, kPc, kFetched, kMinDepth>>

vars == <<fetchVars, todayVars, pkgVars, dateVars, sitemapVars, cacheVars, validVars, runVars, exitVars, crawlVars>>

\* what an action of one part leaves alone: the variables of the other parts
notFetch == <<todayVars, pkgVars, dateVars, sitemapVars, cacheVars, validVars, runVars, exitVars, crawlVars>>
notToday == <<fetchVars, pkgVars, dateVars, sitemapVars, cacheVars, validVars, runVars, exitVars, crawlVars>>
notPkg == <<fetchVars, todayVars, dateVars, sitemapVars, cacheVars, validVars, runVars, exitVars, crawlVars>>
notDate == <<fetchVars, todayVars, pkgVars, sitemapVars, cacheVars, validVars, runVars, exitVars, crawlVars>>
notSitemap == <<fetchVars, todayVars, pkgVars, dateVars, cacheVars, validVars, runVars, exitVars, crawlVars>>
notCache == <<fetchVars, todayVars, pkgVars, dateVars, sitemapVars, validVars, runVars, exitVars, crawlVars>>
notValid == <<fetchVars, todayVars, pkgVars, dateVars, sitemapVars, cacheVars, runVars, exitVars, crawlVars>>
notRun == <<fetchVars, todayVars, pkgVars, dateVars, sitemapVars, cacheVars, validVars, exitVars, crawlVars>>
notExit == <<fetchVars, todayVars, pkgVars, dateVars, sitemapVars, cacheVars, validVars, runVars, crawlVars>>
notCrawl == <<fetchVars, todayVars, pkgVars, dateVars, sitemapVars, cacheVars, validVars, runVars, exitVars>>

(***************************************************************************)
(* Bounds of the model.                                                    *)
(***************************************************************************)
MaxRetriesArg == 4      \* the largest retries / max_retries argument explored
TodayBD == 3            \* the day number of "today" in Asia/Dhaka
NUrls == 3              \* the largest number of candidate URLs explored
MaxLimit == 2           \* the largest limit argument explored
MaxWorkers == 2         \* the largest max_workers argument explored
NLinks == 3             \* the most article links one listing page brings
NSections == 1          \* the number of section pages of the site
NIttefaqLinks == 4      \* the most article links the Ittefaq homepage brings
NSitemaps == 2          \* the most sitemaps that robots.txt lists
TickHours == 12         \* the hours between two calls on the cache
MaxClock == 36          \* the last hour at which the cache is called
NRunUrls == 4           \* the article URLs that the pages of a run can list
NSeeds == 2             \* the seed paths of a run
NGraphPages == 3        \* the pages of the site that the crawl can reach
CrawlLimit == 1         \* the positive limit argument of the crawl explored
NCrawlPages == 2        \* the most pages that the crawl of a run requests
MaxTldExtra == 4         \* how far past six letters the longest sampled TLD goes

(***************************************************************************)
(* Program constants.                                                      *)
(***************************************************************************)
MAX_RETRIES == 3                \* prothomalo.py: MAX_RETRIES
BACKOFF_BASE_TENTHS == 17       \* prothomalo.py: BACKOFF_BASE = 1.7
BD_UTC_OFFSET == 6              \* prothomalo.py: BD_TZ_NAME = "Asia/Dhaka"
MIN_PARAGRAPH_LEN == 25         \* prothomalo.py: len(txt) >= 25
MIN_BODY_LEN == 80              \* prothomalo.py: len(body_text) < 80
FETCH_CAP_FACTOR == 6           \* prothomalo.py: min(len(fetch_list), limit * 6)
DRY_RUN_SAMPLES == 3            \* prothomalo.py: range(min(limit, 3))
PKG_MULTIPLIER == 3             \* base.py: multiplier = 3 if limit > 0 else 1
MIN_TITLE_LEN == 5              \* models.py: len(self.title) >= 5
MIN_CONTENT_LEN == 50           \* models.py: len(self.content) >= 50
CONTENT_BLOCK_MIN == 50         \* prothom_alo.py: len(text) > 50
PARAGRAPH_MIN == 20             \* prothom_alo.py: len(text) > 20
NO_TITLE_LEN == 14              \* prothom_alo.py: len("No title found")
NO_CONTENT_LEN == 16            \* prothom_alo.py: len("No content found")
SITEMAP_CAP_FACTOR == 4         \* prothomalo.py: len(article_urls) >= limit * 4
SEED_CAP_FACTOR == 4            \* prothomalo.py: len(candidate_urls) >= limit * 4
CRAWL_CAP_FACTOR == 4           \* prothomalo.py: len(article_urls) >= limit * 4
DEFAULT_MAX_DELAY_TENTHS == 15  \* prothomalo.py: DEFAULT_MAX_DELAY = 1.5
INTERRUPT_EXIT == 130           \* prothomalo.py: main returns 130 on KeyboardInterrupt
ERROR_EXIT == 1                 \* prothomalo.py: main returns 1 on any other exception
CLICK_EXCEPTION_EXIT == 1       \* cli.py: the exit_code of click.ClickException
TLD_MIN == 2                    \* models.py: [A-Z]{2,6} of the url pattern
TLD_MAX == 6
CACHE_DURATION_HOURS == 24      \* config.py: Config.CACHE_DURATION_HOURS
ITTEFAQ_LINK_FACTOR == 3        \* ittefaq.py: return article_links[:limit * 3]
ITTEFAQ_TITLE_MIN == 10         \* ittefaq.py: len(title) > 10
ITTEFAQ_CONTENT_MIN == 100      \* ittefaq.py: len(content) > 100
BENGALI_ZERO == 2534            \* scraper.py: the code point of the digit mapped to '0'

None == [tag |-> "none"]
Pending == [tag |-> "pending"]
Idle == [tag |-> "idle"]
NoDate == [tag |-> "nodate"]
BadDate == [tag |-> "baddate"]

RECURSIVE Pow(_, _)
Pow(b, e) == IF e = 0 THEN 1 ELSE b * Pow(b, e - 1)

RECURSIVE SumSeq(_)
SumSeq(s) == IF s = <<>> THEN 0 ELSE Head(s) + SumSeq(Tail(s))

(***************************************************************************)
(* Time is counted in units of 10^-MaxRetriesArg seconds, so that          *)
(* BACKOFF_BASE ** attempt is an exact integer for every attempt explored. *)
(***************************************************************************)
OneSecond == Pow(10, MaxRetriesArg)

\* BACKOFF_BASE ** attempt
BackoffFlat(attempt) == BACKOFF_BASE_TENTHS * Pow(10, MaxRetriesArg - 1)
Backoff(attempt) ==
    Pow(BACKOFF_BASE_TENTHS, attempt) * Pow(10, MaxRetriesArg - attempt)

\* random.random(): a value of [0, 1)
RandomUnit == {0, OneSecond - 1}
\* random.uniform(0, 0.5) followed by polite_sleep(wait, wait + 0.2):
\* the sleep exceeds BACKOFF_BASE ** attempt by a value of [0, 0.7]
RandomErrorJitter == {0, (7 * OneSecond) \div 10}

(***************************************************************************)
(* What one GET can bring: an HTTP status, or a requests.RequestException  *)
(* (timeout, connection error), written as status 0.                       *)
(***************************************************************************)
NetError == 0
Outcomes == {200, 404, 410, 429, 500, NetError}

(***************************************************************************)
(* Pages.  A page is what extract_article reads of the HTML: the length of *)
(* the stripped <h1> text (0: no <h1>, or an empty one), the lengths of    *)
(* the <p> texts of the container, and the publication date of the meta    *)
(* tags: NoDate, BadDate (not parseable) or DateAt(day, hour, off), the      *)
(* local time `hour` of day `day` at UTC offset `off` hours.               *)
(***************************************************************************)
DateAt(d, h, o) == [tag |-> "date", day |-> d, hour |-> h, off |-> o]

GoodPage       == [h1 |-> 12, ps |-> <<60, 40>>, published |-> DateAt(TodayBD, 9, 6)]
ShortTitlePage == [h1 |-> 2,  ps |-> <<60, 40>>, published |-> DateAt(TodayBD, 1, 6)]
NoTitlePage    == [h1 |-> 0,  ps |-> <<60, 40>>, published |-> DateAt(TodayBD, 9, 6)]
ShortBodyPage  == [h1 |-> 12, ps |-> <<30, 24, 47>>, published |-> DateAt(TodayBD, 9, 6)]
StalePage      == [h1 |-> 12, ps |-> <<60, 40>>, published |-> DateAt(TodayBD - 1, 23, 6)]
UtcTodayPage   == [h1 |-> 12, ps |-> <<60, 40>>, published |-> DateAt(TodayBD - 1, 20, 0)]
NoDatePage     == [h1 |-> 12, ps |-> <<60, 40>>, published |-> NoDate]

PageSamples == {GoodPage, ShortTitlePage, NoTitlePage, ShortBodyPage,
                StalePage, UtcTodayPage, NoDatePage}

\* dt.astimezone(BD_TZ).date()
DhakaDay(dt) == (dt.day * 24 + dt.hour - dt.off + BD_UTC_OFFSET) \div 24

\* parse_datetime_iso: the ISO string, or None when the text does not parse
parse_datetime_iso(raw) == IF raw.tag # "date" THEN None ELSE raw

\* date.today() on a host without the Dhaka zone: a UTC host, where the day
\* before is still running during the first six hours of the Dhaka day
HostToday == TodayBD - 1

\* article_is_today: dt.astimezone(BD_TZ).date() == today_bd if BD_TZ else
\* dt.date() == today_bd
article_is_today(published, bd_tz) ==
    IF published = None THEN FALSE
    ELSE IF bd_tz = "none" THEN published.day = HostToday
    ELSE DhakaDay(published) = TodayBD

\* "\n\n".join(paragraphs) of the paragraphs of at least 25 characters
BodyLen(ps) ==
    LET kept == SelectSeq(ps, LAMBDA n : n >= MIN_PARAGRAPH_LEN)
    IN  IF kept = <<>> THEN 0 ELSE SumSeq(kept) + 2 * (Len(kept) - 1)

extract_article(page, url) ==
    IF page.h1 = 0 THEN None
    ELSE IF BodyLen(page.ps) < MIN_BODY_LEN THEN None
    ELSE [tag |-> "article", url |-> url, title |-> page.h1, text |-> BodyLen(page.ps),
          published |-> parse_datetime_iso(page.published)]

\* fetch_and_parse, given what request_with_retries returned
fetch_and_parse(resp, page, url, bd_tz) ==
    IF resp = "none" THEN None
    ELSE LET art == extract_article(page, url)
         IN  IF art = None THEN None
             ELSE IF ~article_is_today(art.published, bd_tz) THEN None
             ELSE art

(***************************************************************************)
(* request_with_retries (prothomalo.py).  One action is one pass of        *)
(* `for attempt in range(1, retries + 1)`.                                 *)
(***************************************************************************)
AttemptsAllowedPlusOne(retries) == retries + 1
AttemptsAllowed(retries) == retries

IsPermanent(status) == status \in {404, 410}

IsSuccess(status) == status # NetError /\ 200 <= status /\ status < 400

FetchEnd(result) ==
    /\ fResult' = result
    /\ UNCHANGED <<fAttempt, fWaits>>

FetchRetry(wait) ==
    /\ fWaits' = Append(fWaits, wait)
    /\ fAttempt' = fAttempt + 1
    /\ fResult' = fResult

request_with_retries ==
    /\ fRoutine = "rwr"
    /\ fResult = "pending"
    /\ fAttempt <= AttemptsAllowed(fRetries)
    /\ fStatuses' = Append(fStatuses, fServer)
    /\ fServer' \in Outcomes
    /\ IF fServer # NetError /\ IsPermanent(fServer) THEN FetchEnd("none")
       ELSE IF fServer = 429
            THEN \E r \in RandomUnit : FetchRetry(Backoff(fAttempt) + r)
       ELSE IF IsSuccess(fServer) THEN FetchEnd("resp")
       ELSE \E j \in RandomErrorJitter : FetchRetry(Backoff(fAttempt) + j)
    /\ UNCHANGED <<fRoutine, fRetries, fPage, fArticle>>
    /\ UNCHANGED notFetch

\* the loop is exhausted: `return None`
request_with_retries_exhausted ==
    /\ fRoutine = "rwr"
    /\ fResult = "pending"
    /\ fAttempt > AttemptsAllowed(fRetries)
    /\ fResult' = "none"
    /\ UNCHANGED <<fRoutine, fRetries, fServer, fAttempt, fStatuses, fWaits,
                   fPage, fArticle>>
    /\ UNCHANGED notFetch

\* the rest of fetch_and_parse, once request_with_retries has returned
fetch_and_parse_rest ==
    /\ fRoutine = "rwr"
    /\ fResult # "pending"
    /\ fArticle = Pending
    /\ fPage' \in IF fResult = "resp" THEN PageSamples ELSE {fPage}
    /\ fArticle' = fetch_and_parse(fResult, fPage', "u", "dhaka")
    /\ UNCHANGED <<fRoutine, fRetries, fServer, fAttempt, fStatuses, fWaits,
                   fResult>>
    /\ UNCHANGED notFetch

(***************************************************************************)
(* _make_request of the site scrapers: BaseScraper (base.py) raises        *)
(* NetworkException after the last failed attempt, the classes of          *)
(* scraper.py return None.  raise_for_status() raises for every 4xx and    *)
(* 5xx status, and the handler treats them all alike.  One action is one   *)
(* pass of `for attempt in range(self.max_retries)`, attempt counted       *)
(* from 1 here.                                                            *)
(***************************************************************************)
RaisesForStatus(status) == status = NetError \/ status >= 400

\* what the last failed attempt does: `raise NetworkException` in base.py,
\* `return None` in scraper.py
MakeRequestFailure(impl) == IF impl = "mk_base" THEN "raise" ELSE "none"

make_request ==
    /\ fRoutine \in {"mk_base", "mk_legacy"}
    /\ fResult = "pending"
    /\ fAttempt <= fRetries
    /\ fStatuses' = Append(fStatuses, fServer)
    /\ fServer' \in Outcomes
    /\ IF ~RaisesForStatus(fServer) THEN FetchEnd("resp")
       ELSE IF fAttempt = fRetries
            THEN FetchEnd(MakeRequestFailure(fRoutine))
       ELSE FetchRetry(fAttempt * OneSecond)
    /\ UNCHANGED <<fRoutine, fRetries, fPage, fArticle>>
    /\ UNCHANGED notFetch

FetchInit ==
    /\ fRoutine \in {"rwr", "mk_base", "mk_legacy"}
    /\ fRetries \in 1..MaxRetriesArg
    /\ fServer \in Outcomes
    /\ fAttempt = 1
    /\ fStatuses = <<>>
    /\ fWaits = <<>>
    /\ fResult = "pending"
    /\ fPage = None
    /\ fArticle = Pending

FetchIdle ==
    /\ fRoutine = "idle"
    /\ fRetries = 0
    /\ fServer = 200
    /\ fAttempt = 0
    /\ fStatuses = <<>>
    /\ fWaits = <<>>
    /\ fResult = "idle"
    /\ fPage = None
    /\ fArticle = Idle

FetchNext ==
    \/ request_with_retries
    \/ request_with_retries_exhausted
    \/ fetch_and_parse_rest
    \/ make_request

(***************************************************************************)
(* scrape_today (prothomalo.py), from the point where discovery has        *)
(* gathered candidate_urls.  The URLs are numbered; list(candidate_urls)   *)
(* is taken in ascending order, one of the orders the set can have (the    *)
(* pages behind the URLs are chosen when they are fetched, so every other  *)
(* order is this one with the URLs renamed).                               *)
(***************************************************************************)
Urls == 1..(IF NUrls > FETCH_CAP_FACTOR THEN NUrls ELSE FETCH_CAP_FACTOR + 1)

\* the (limit, candidate_urls, max_workers, BD_TZ) inputs explored: with the
\* Dhaka zone at hand every limit with up to NUrls candidates and up to
\* MaxWorkers workers, and limit 1 with one candidate more than limit * 6 and
\* a single worker; without the zone no limit, one worker and up to two
\* candidates
HarvestInputs ==
    {<<l, 1..n, w, "dhaka">> : l \in 0..MaxLimit, n \in 0..NUrls, w \in 1..MaxWorkers}
        \cup {<<1, 1..(FETCH_CAP_FACTOR + 1), 1, "dhaka">>}
        \cup {<<0, 1..n, 1, "none">> : n \in 1..2}

\* Article.published as the ISO string sort() compares: by date, then time
\* of day, then the offset text
PublishedKey(art) ==
    IF art.published = None THEN <<0, 0, 0>>
    ELSE <<art.published.day + 1, art.published.hour, art.published.off>>

KeyGreater(a, b) ==
    \/ a[1] > b[1]
    \/ a[1] = b[1] /\ a[2] > b[2]
    \/ a[1] = b[1] /\ a[2] = b[2] /\ a[3] > b[3]

\* insert art behind every element whose key is at least its own
RECURSIVE InsertDescending(_, _)
InsertDescending(sorted, art) ==
    IF sorted = <<>> THEN <<art>>
    ELSE IF KeyGreater(PublishedKey(art), PublishedKey(Head(sorted)))
         THEN <<art>> \o sorted
         ELSE <<Head(sorted)>> \o InsertDescending(Tail(sorted), art)

\* articles.sort(key=lambda a: a.published or "", reverse=True): stable
RECURSIVE SortByPublishedDescending(_)
SortByPublishedDescending(arts) ==
    IF arts = <<>> THEN <<>>
    ELSE InsertDescending(
             SortByPublishedDescending(SubSeq(arts, 1, Len(arts) - 1)),
             arts[Len(arts)])

RECURSIVE SetToSeq(_)
SetToSeq(S) ==
    IF S = {} THEN <<>>
    ELSE LET m == CHOOSE x \in S : \A y \in S : x <= y
         IN  <<m>> \o SetToSeq(S \ {m})

Min(a, b) == IF a <= b THEN a ELSE b

\* fetch_list = list(candidate_urls), cut to limit * 6 when limit > 0
FetchList(candidates, limit) ==
    LET all == SetToSeq(candidates)
    IN  IF limit > 0
        THEN SubSeq(all, 1, Min(Len(all), limit * FETCH_CAP_FACTOR))
        ELSE all

\* the sample articles of a dry run
DryRunSample(i) ==
    [tag |-> "article", url |-> i, title |-> 16, text |-> 228,
     published |-> DateAt(TodayBD, 12, 6)]

DryRunSamples(limit) ==
    [i \in 1..Min(limit, DRY_RUN_SAMPLES) |-> DryRunSample(i)]

\* limit > 0 and len(articles) >= limit
ReachedLimitLate(n, limit) == limit > 0 /\ n > limit
ReachedLimitNever(n, limit) == FALSE
ReachedLimit(n, limit) == limit > 0 /\ n >= limit

Worklist == {tFetchList[i] : i \in 1..Len(tFetchList)}
Running == {u \in Worklist : tState[u] = "running"}
Queued == {u \in Worklist : tState[u] = "queued"}

\* what a future can hold: the return value of fetch_and_parse, or an
\* exception that fetch_and_parse let through
Raised == [tag |-> "raised"]

scrape_today_dry_run ==
    /\ tPc = "start"
    /\ tDryRun
    /\ tArticles' = DryRunSamples(tLimit)
    /\ tPersisted' = tArticles'
    /\ tPc' = "returned"
    /\ UNCHANGED <<tDryRun, tLimit, tWorkers, tBdTz, tCandidates, tFetchList, tState,
                   tResult, tConsumed>>
    /\ UNCHANGED notToday

\* no candidate URL: return []
scrape_today_no_candidates ==
    /\ tPc = "start"
    /\ ~tDryRun
    /\ tCandidates = {}
    /\ tPc' = "returned"
    /\ UNCHANGED <<tDryRun, tLimit, tWorkers, tBdTz, tCandidates, tFetchList, tState,
                   tResult, tConsumed, tArticles, tPersisted>>
    /\ UNCHANGED notToday

\* build fetch_list and submit one future per URL of it
scrape_today_submit ==
    /\ tPc = "start"
    /\ ~tDryRun
    /\ tCandidates # {}
    /\ tFetchList' = FetchList(tCandidates, tLimit)
    /\ tState' = [u \in {tFetchList'[i] : i \in 1..Len(tFetchList')} |-> "queued"]
    /\ tResult' = [u \in {tFetchList'[i] : i \in 1..Len(tFetchList')} |-> Pending]
    /\ tPc' = "collect"
    /\ UNCHANGED <<tDryRun, tLimit, tWorkers, tBdTz, tCandidates, tConsumed, tArticles,
                   tPersisted>>
    /\ UNCHANGED notToday

\* a pool thread takes the next work item of the executor's queue; the pool
\* keeps doing so while the orchestrating thread waits in the executor's
\* __exit__, which is shutdown(wait=True) without cancel_futures
worker_start(u) ==
    /\ tPc \in {"collect", "shutdown"}
    /\ u \in Queued
    /\ \A v \in Queued : u <= v
    /\ Cardinality(Running) < tWorkers
    /\ tState' = [tState EXCEPT ![u] = "running"]
    /\ UNCHANGED <<tDryRun, tLimit, tWorkers, tBdTz, tCandidates, tPc, tFetchList,
                   tResult, tConsumed, tArticles, tPersisted>>
    /\ UNCHANGED notToday

\* a pool thread ends its fetch_and_parse(url)
worker_finish(u) ==
    /\ tPc \in {"collect", "shutdown"}
    /\ u \in Running
    /\ tState' = [tState EXCEPT ![u] = "done"]
    /\ \/ \E page \in PageSamples :
             tResult' = [tResult EXCEPT ![u] = fetch_and_parse("resp", page, u, tBdTz)]
       \/ tResult' = [tResult EXCEPT ![u] = fetch_and_parse("none", None, u, tBdTz)]
       \/ tResult' = [tResult EXCEPT ![u] = Raised]
    /\ UNCHANGED <<tDryRun, tLimit, tWorkers, tBdTz, tCandidates, tPc, tFetchList,
                   tConsumed, tArticles, tPersisted>>
    /\ UNCHANGED notToday

\* `if art: articles.append(art)`, run by the thread that called
\* scrape_today
AcceptedOverwrites(articles, result) ==
    IF result.tag = "article" THEN <<result>> ELSE articles

Accepted(articles, result) ==
    IF result.tag = "article" THEN Append(articles, result) ELSE articles

\* one pass of `for future in as_completed(future_map)`
collect(u) ==
    /\ tPc = "collect"
    /\ u \in Worklist \ tConsumed
    /\ tState[u] = "done"
    /\ tConsumed' = tConsumed \cup {u}
    /\ tArticles' = Accepted(tArticles, tResult[u])
    /\ tPc' = IF \/ /\ tResult[u].tag = "article"
                    /\ ReachedLimit(Len(tArticles'), tLimit)
                 \/ tConsumed' = Worklist
              THEN "shutdown" ELSE "collect"
    /\ UNCHANGED <<tDryRun, tLimit, tWorkers, tBdTz, tCandidates, tFetchList, tState,
                   tResult, tPersisted>>
    /\ UNCHANGED notToday

\* the `with` block is left once every submitted future has run; then
\* articles.sort(...), persist(...), return articles
scrape_today_return ==
    /\ tPc = "shutdown"
    /\ \A u \in Worklist : tState[u] = "done"
    /\ tArticles' = SortByPublishedDescending(tArticles)
    /\ tPersisted' = tArticles'
    /\ tPc' = "returned"
    /\ UNCHANGED <<tDryRun, tLimit, tWorkers, tBdTz, tCandidates, tFetchList, tState,
                   tResult, tConsumed>>
    /\ UNCHANGED notToday

TodayInit ==
    /\ tDryRun \in BOOLEAN
    /\ \E in \in HarvestInputs :
          /\ tLimit = in[1]
          /\ tCandidates = in[2]
          /\ tWorkers = in[3]
          /\ tBdTz = in[4]
    /\ tPc = "start"
    /\ tFetchList = <<>>
    /\ tState = <<>>
    /\ tResult = <<>>
    /\ tConsumed = {}
    /\ tArticles = <<>>
    /\ tPersisted = <<>>

TodayIdle ==
    /\ tDryRun = FALSE
    /\ tLimit = 0
    /\ tWorkers = 0
    /\ tBdTz = "idle"
    /\ tCandidates = {}
    /\ tPc = "idle"
    /\ tFetchList = <<>>
    /\ tState = <<>>
    /\ tResult = <<>>
    /\ tConsumed = {}
    /\ tArticles = <<>>
    /\ tPersisted = <<>>

TodayNext ==
    \/ scrape_today_dry_run
    \/ scrape_today_no_candidates
    \/ scrape_today_submit
    \/ \E u \in Urls : worker_start(u)
    \/ \E u \in Urls : worker_finish(u)
    \/ \E u \in Urls : collect(u)
    \/ scrape_today_return

(***************************************************************************)
(* The Article of the package (models.py).                                 *)
(***************************************************************************)
\* a string: `len` characters that strip() keeps, with `pad` blanks around
Str(n, pad) == [len |-> n, pad |-> pad]

\* len(s)
PyLen(s) == s.len + s.pad

\* `if s:` is false for None and for the empty string
Truthy(s) == s # None /\ PyLen(s) > 0

\* s.strip() behind `if s:`
strip(s) == IF Truthy(s) THEN Str(s.len, 0) ELSE s

\* a URL by the parts that the pattern of _is_valid_url tells apart: its
\* scheme, its host ("tld": dot-separated labels that end in `tld` letters,
\* "localhost", "ipv4", "label": one label without a dot, "": no host), and
\* its path ("", "/", "/p": no blank in it, "/p q": a blank in it)
\* (len: 0 for the empty string, else 1; only its being 0 is read)
Url(scheme, host, tld, path, pad) ==
    [scheme |-> scheme, host |-> host, tld |-> tld, path |-> path,
     len |-> IF scheme = "" /\ host = "" /\ path = "" THEN 0 ELSE 1,
     pad |-> pad]

\* Article._is_valid_url: ^https?:// (domain ending in 2 to 6 letters |
\* localhost | ipv4) (:port)? (/? | [/?]\S+)$
is_valid_url(url) ==
    /\ url.pad = 0
    /\ url.scheme \in {"http", "https"}
    /\ \/ url.host = "tld" /\ url.tld >= TLD_MIN /\ url.tld <= TLD_MAX
       \/ url.host \in {"localhost", "ipv4"}
    /\ url.path \in {"", "/", "/p"}

\* datetime.now().isoformat() at hour t
Stamp(t) == [tag |-> "at", hour |-> t]

\* Article.__post_init__ at hour `now`
post_init(art, now) ==
    [art EXCEPT !.scraped_at = IF @ = None THEN Stamp(now) ELSE @,
                !.title = strip(@),
                !.content = strip(@),
                !.url = IF Truthy(@) THEN [@ EXCEPT !.pad = 0] ELSE @]

\* Article.to_dict: asdict(self)
to_dict(art) == [art EXCEPT !.tag = "dict"]

\* Article.from_dict: cls(**data), which runs __post_init__ again
from_dict(data, now) == post_init([data EXCEPT !.tag = "article"], now)

\* Article.is_valid
is_valid(art) ==
    /\ Truthy(art.title) /\ PyLen(art.title) >= MIN_TITLE_LEN
    /\ Truthy(art.content) /\ PyLen(art.content) >= MIN_CONTENT_LEN
    /\ Truthy(art.url) /\ is_valid_url(art.url)

(***************************************************************************)
(* The sequential harvest of the site scrapers: get_article_links of       *)
(* ProthomAloScraper, scrape_article, and scrape_articles around them.     *)
(* pImpl tells the two implementations apart: "mk_base" is the package     *)
(* (BaseScraper in base.py with prothom_alo.py), "mk_legacy" the classes   *)
(* of scraper.py.  A page is what the extractors read of the HTML: the     *)
(* length of the text of the first element a title selector matches        *)
(* (NoElement: none matches), the same for the <title> tag, the text       *)
(* lengths of the elements the content selectors match, and the text       *)
(* lengths of the <p> elements.                                            *)
(***************************************************************************)
NoElement == [tag |-> "noelement"]

Text(n) == [len |-> n, pad |-> 0, placeholder |-> FALSE]
NoTitleFound == [len |-> NO_TITLE_LEN, pad |-> 0, placeholder |-> TRUE]
NoContentFound == [len |-> NO_CONTENT_LEN, pad |-> 0, placeholder |-> TRUE]

PkgGoodPage      == [h1 |-> Text(30), titleTag |-> Text(40), blocks |-> <<200>>, ps |-> <<>>]
PkgParagraphPage == [h1 |-> Text(30), titleTag |-> Text(40), blocks |-> <<30>>, ps |-> <<45, 12, 60>>]
PkgTitleTagPage  == [h1 |-> NoElement, titleTag |-> Text(40), blocks |-> <<200>>, ps |-> <<>>]
PkgNoTitlePage   == [h1 |-> NoElement, titleTag |-> NoElement, blocks |-> <<200>>, ps |-> <<>>]
PkgEmptyH1Page   == [h1 |-> Text(0), titleTag |-> Text(40), blocks |-> <<200>>, ps |-> <<>>]
PkgNoBodyPage    == [h1 |-> Text(30), titleTag |-> Text(40), blocks |-> <<>>, ps |-> <<15>>]
PkgShortBodyPage == [h1 |-> Text(30), titleTag |-> Text(40), blocks |-> <<>>, ps |-> <<25>>]

PkgPageSamples == {PkgGoodPage, PkgParagraphPage, PkgTitleTagPage, PkgNoTitlePage,
                   PkgEmptyH1Page, PkgNoBodyPage, PkgShortBodyPage}

\* _extract_title: the first matching selector, else <title>, else the
\* placeholder
extract_title(page) ==
    IF page.h1 # NoElement THEN page.h1
    ELSE IF page.titleTag # NoElement THEN page.titleTag
    ELSE NoTitleFound

\* '\n\n'.join(content_parts)
JoinedLen(parts) == SumSeq(parts) + 2 * (Len(parts) - 1)

\* _extract_content: the selector texts longer than 50, else the paragraphs
\* longer than 20, else the placeholder
extract_content(page) ==
    LET blocks == SelectSeq(page.blocks, LAMBDA n : n > CONTENT_BLOCK_MIN)
        paras  == SelectSeq(page.ps, LAMBDA n : n > PARAGRAPH_MIN)
    IN  IF blocks # <<>> THEN Text(JoinedLen(blocks))
        ELSE IF paras # <<>> THEN Text(JoinedLen(paras))
        ELSE NoContentFound

\* the url of a link of get_article_links: urljoin(base_url, href), kept
\* only when it lies on the site
LinkUrl == Url("https", "tld", 3, "/p", 0)

\* _extract_title of IttefaqScraper: the first of h1 and <title> whose text
\* is longer than 10, else the placeholder (package) or None (scraper.py);
\* no sampled page has an .article-title element
ittefaq_extract_title(impl, page) ==
    IF page.h1 # NoElement /\ page.h1.len > ITTEFAQ_TITLE_MIN THEN page.h1
    ELSE IF page.titleTag # NoElement /\ page.titleTag.len > ITTEFAQ_TITLE_MIN
    THEN page.titleTag
    ELSE IF impl = "mk_base" THEN NoTitleFound ELSE None

\* _extract_content of IttefaqScraper: the <p> texts longer than 20 joined,
\* when the whole is longer than 100, else the placeholder or None
ittefaq_extract_content(impl, page) ==
    LET paras == SelectSeq(page.ps, LAMBDA n : n > PARAGRAPH_MIN)
    IN  IF paras # <<>> /\ JoinedLen(paras) > ITTEFAQ_CONTENT_MIN
        THEN Text(JoinedLen(paras))
        ELSE IF impl = "mk_base" THEN NoContentFound ELSE None

\* scrape_article of IttefaqScraper, once _make_request has returned `resp`
ittefaq_scrape_article(impl, resp, page, url) ==
    IF resp = "none" THEN None
    ELSE LET title == ittefaq_extract_title(impl, page)
             content == ittefaq_extract_content(impl, page)
         IN  IF title = None \/ content = None THEN None
             ELSE LET art == [tag |-> "article", link |-> url, url |-> LinkUrl,
                              title |-> title, content |-> content]
                  IN  IF impl = "mk_base" /\ ~is_valid(art) THEN None ELSE art

\* scrape_article of ProthomAloScraper, once _make_request has returned `resp`
prothomalo_scrape_article(impl, resp, page, url) ==
    IF resp = "none" THEN None
    ELSE LET art == [tag |-> "article", link |-> url, url |-> LinkUrl,
                     title |-> extract_title(page),
                     content |-> extract_content(page)]
         IN  IF impl = "mk_base"
             THEN IF is_valid(art) THEN art ELSE None
             ELSE IF art.title.len = 0 \/ art.content.len = 0 THEN None ELSE art

\* self.scrape_article(link) of the scraper class at hand
scrape_article(site, impl, resp, page, url) ==
    IF site = "ittefaq" THEN ittefaq_scrape_article(impl, resp, page, url)
    ELSE prothomalo_scrape_article(impl, resp, page, url)

\* what _make_request hands to its caller: a response, or its failure after
\* the last retry
MakeRequestResults(impl) == {"resp", MakeRequestFailure(impl)}

\* the limit argument that scrape_articles passes to get_article_links
LinkLimit(limit) == IF limit > 0 THEN limit * PKG_MULTIPLIER ELSE 0

\* the first n of the links 1, 2, ... not yet in `links`
NewLinks(links, n) == [i \in 1..n |-> Len(links) + i]

\* the article anchors of a page, in document order: n links not yet in
\* `links`, and on a page that repeats its anchors the first link of
\* `links` again and each of the n twice
Anchors(links, n, repeats) ==
    IF repeats
    THEN (IF links = <<>> THEN <<>> ELSE <<links[1]>>)
             \o NewLinks(links, n) \o NewLinks(links, n)
    ELSE NewLinks(links, n)

\* `if ... and full_url not in links: links.append(full_url)` over the
\* anchors: the anchors that are appended
EveryAnchor(links, anchors) == anchors

RECURSIVE Fresh(_, _)
Fresh(links, anchors) ==
    IF anchors = <<>> THEN <<>>
    ELSE IF \E i \in 1..Len(links) : links[i] = Head(anchors)
         THEN Fresh(links, Tail(anchors))
         ELSE <<Head(anchors)>> \o Fresh(Append(links, Head(anchors)), Tail(anchors))

\* appending `found` link by link with `if limit > 0 and len(links) >= limit:
\* break` behind each append
AppendCapped(links, found, limit) ==
    IF limit > 0 /\ Len(links) + Len(found) > limit
    THEN IF Len(links) >= limit
         THEN links \o SubSeq(found, 1, 1)
         ELSE links \o SubSeq(found, 1, limit - Len(links))
    ELSE links \o found

\* `return links[:limit]`, or `return links` when limit is 0
LinksReturned(links, limit) ==
    IF limit = 0 THEN links ELSE SubSeq(links, 1, Min(Len(links), limit))

LinkCapReached(links, limit) == limit > 0 /\ Len(links) >= limit

\* the homepage request of get_article_links and the scan of its anchors
get_article_links_home ==
    /\ pPc = "home"
    /\ pSite = "prothomalo"
    /\ \E resp \in MakeRequestResults(pImpl) :
          IF resp = "raise"
          THEN /\ pPc' = "raised"
               /\ pFailed' = "home"
               /\ UNCHANGED <<pLinks, pFound>>
          ELSE IF resp = "none"
          THEN /\ pPc' = "loop"
               /\ UNCHANGED <<pLinks, pFailed, pFound>>
          ELSE \E n \in 0..NLinks, repeats \in BOOLEAN :
                  LET links == AppendCapped(<<>>, Fresh(<<>>, Anchors(<<>>, n, repeats)),
                                            LinkLimit(pLimit))
                  IN  IF LinkLimit(pLimit) = 0 \/ Len(links) < LinkLimit(pLimit)
                      THEN /\ pLinks' = links
                           /\ pPc' = "sections"
                           /\ UNCHANGED <<pFailed, pFound>>
                      ELSE /\ pLinks' = LinksReturned(links, LinkLimit(pLimit))
                           /\ pFound' = Len(links)
                           /\ pPc' = "loop"
                           /\ UNCHANGED pFailed
    /\ UNCHANGED <<pImpl, pLimit, pSection, pIndex, pArticles, pSkipped, pSite, pCalls>>
    /\ UNCHANGED pResult
    /\ UNCHANGED notPkg

\* `return article_links[:limit * 3]` of IttefaqScraper.get_article_links,
\* or `return article_links` when its limit argument is 0
IttefaqLinksReturned(links, limit) ==
    IF limit = 0 THEN links
    ELSE SubSeq(links, 1, Min(Len(links), limit * ITTEFAQ_LINK_FACTOR))

\* get_article_links of IttefaqScraper: the homepage request, the scan of
\* its anchors (each article URL once) and the slice of the result
ittefaq_get_article_links ==
    /\ pPc = "home"
    /\ pSite = "ittefaq"
    /\ \E resp \in MakeRequestResults(pImpl) :
          IF resp = "raise"
          THEN /\ pPc' = "raised"
               /\ pFailed' = "home"
               /\ UNCHANGED <<pLinks, pFound>>
          ELSE IF resp = "none"
          THEN /\ pPc' = "loop"
               /\ UNCHANGED <<pLinks, pFailed, pFound>>
          ELSE \E n \in 0..NIttefaqLinks, repeats \in BOOLEAN :
                  /\ pLinks' = IttefaqLinksReturned(Fresh(<<>>, Anchors(<<>>, n, repeats)),
                                                    LinkLimit(pLimit))
                  /\ pFound' = n
                  /\ pPc' = "loop"
                  /\ UNCHANGED pFailed
    /\ UNCHANGED <<pImpl, pLimit, pSection, pIndex, pArticles, pSkipped, pSite, pCalls>>
    /\ UNCHANGED pResult
    /\ UNCHANGED notPkg

\* one pass of `for section in sections`
get_article_links_section ==
    /\ pPc = "sections"
    /\ pSection <= NSections
    /\ ~LinkCapReached(pLinks, LinkLimit(pLimit))
    /\ \E resp \in MakeRequestResults(pImpl) :
          IF resp = "raise"
          THEN /\ pPc' = "raised"
               /\ pFailed' = "section"
               /\ UNCHANGED pLinks
          ELSE IF resp = "none"
          THEN UNCHANGED <<pPc, pLinks, pFailed>>
          ELSE /\ \E n \in 0..1, repeats \in BOOLEAN :
                     pLinks' = AppendCapped(pLinks, Fresh(pLinks, Anchors(pLinks, n, repeats)),
                                            LinkLimit(pLimit))
               /\ UNCHANGED <<pPc, pFailed>>
    /\ pSection' = pSection + 1
    /\ UNCHANGED <<pImpl, pLimit, pIndex, pArticles, pSkipped, pSite, pFound, pCalls>>
    /\ UNCHANGED pResult
    /\ UNCHANGED notPkg

\* the section loop ends (exhausted, or `break`) and get_article_links returns
get_article_links_return ==
    /\ pPc = "sections"
    /\ pSection > NSections \/ LinkCapReached(pLinks, LinkLimit(pLimit))
    /\ pLinks' = LinksReturned(pLinks, LinkLimit(pLimit))
    /\ pFound' = Len(pLinks)
    /\ pPc' = "loop"
    /\ UNCHANGED <<pImpl, pLimit, pSection, pIndex, pArticles, pFailed, pSkipped,
                   pSite, pCalls>>
    /\ UNCHANGED pResult
    /\ UNCHANGED notPkg

\* one pass of `for i, link in enumerate(article_links)` in scrape_articles
scrape_articles_pass ==
    /\ pPc = "loop"
    /\ pIndex <= Len(pLinks)
    /\ ~ReachedLimit(Len(pArticles), pLimit)
    /\ \E resp \in MakeRequestResults(pImpl) :
          IF resp = "raise"
          THEN \* NetworkException leaves scrape_article and is caught by the
               \* try/except of BaseScraper.scrape_articles
               /\ pSkipped' = pSkipped \cup {pLinks[pIndex]}
               /\ UNCHANGED pArticles
          ELSE \E page \in PkgPageSamples :
                  LET art == scrape_article(pSite, pImpl, resp, page, pLinks[pIndex])
                      kept == IF pImpl = "mk_base"
                              THEN art # None /\ is_valid(art)
                              ELSE art # None
                  IN  /\ pArticles' = IF kept THEN Append(pArticles, art) ELSE pArticles
                      /\ pSkipped' = IF kept THEN pSkipped
                                     ELSE pSkipped \cup {pLinks[pIndex]}
    /\ pIndex' = pIndex + 1
    /\ pCalls' = Append(pCalls, pLinks[pIndex])
    /\ UNCHANGED <<pImpl, pLimit, pPc, pLinks, pSection, pFailed, pSite, pFound>>
    /\ UNCHANGED pResult
    /\ UNCHANGED notPkg

\* the loop ends (exhausted, or `break`): `return articles`
scrape_articles_return ==
    /\ pPc = "loop"
    /\ pIndex > Len(pLinks) \/ ReachedLimit(Len(pArticles), pLimit)
    /\ pPc' = "returned"
    /\ UNCHANGED <<pImpl, pLimit, pLinks, pSection, pIndex, pArticles, pFailed,
                   pSkipped, pSite, pFound, pCalls>>
    /\ UNCHANGED pResult
    /\ UNCHANGED notPkg

\* validate_articles: the articles whose is_valid() holds
validate_articles(articles) == SelectSeq(articles, LAMBDA a : is_valid(a))

\* scrape_single_site of the package's cli, after scraper.scrape_articles
\* has returned: None when no article (or no valid one) came back, else the
\* ScrapingResult
NotReported == [tag |-> "notreported"]

scrape_single_site ==
    /\ pPc = "returned"
    /\ pImpl = "mk_base"
    /\ LET valid_articles == validate_articles(pArticles)
       IN  pResult' = IF pArticles = <<>> \/ valid_articles = <<>> THEN None
                      ELSE [tag |-> "ScrapingResult",
                            articles |-> valid_articles,
                            total_requested |-> pLimit,
                            total_found |-> Len(pArticles),
                            total_valid |-> Len(valid_articles)]
    /\ pPc' = "reported"
    /\ UNCHANGED <<pImpl, pLimit, pLinks, pSection, pIndex, pArticles, pFailed,
                   pSkipped, pSite, pFound, pCalls>>
    /\ UNCHANGED notPkg

PkgInit ==
    /\ pImpl \in {"mk_base", "mk_legacy"}
    /\ pResult = NotReported
    /\ pSite \in {"prothomalo", "ittefaq"}
    /\ pFound = 0
    /\ pCalls = <<>>
    /\ pLimit \in 0..MaxLimit
    /\ pPc = "home"
    /\ pLinks = <<>>
    /\ pSection = 1
    /\ pIndex = 1
    /\ pArticles = <<>>
    /\ pFailed = "nothing"
    /\ pSkipped = {}

PkgIdle ==
    /\ pImpl = "idle"
    /\ pResult = NotReported
    /\ pSite = "idle"
    /\ pFound = 0
    /\ pCalls = <<>>
    /\ pLimit = 0
    /\ pPc = "idle"
    /\ pLinks = <<>>
    /\ pSection = 0
    /\ pIndex = 0
    /\ pArticles = <<>>
    /\ pFailed = "nothing"
    /\ pSkipped = {}

PkgNext ==
    \/ scrape_single_site
    \/ get_article_links_home
    \/ ittefaq_get_article_links
    \/ get_article_links_section
    \/ get_article_links_return
    \/ scrape_articles_pass
    \/ scrape_articles_return

(***************************************************************************)
(* _convert_bengali_date of IttefaqScraper (scraper.py; the method of      *)
(* ittefaq.py has the same body).  A string is the sequence of its code    *)
(* points.                                                                 *)
(***************************************************************************)
Chr == [space |-> 32, plus |-> 43, comma |-> 44, minus |-> 45, zero |-> 48,
        nine |-> 57, colon |-> 58, T |-> 84]

\* month_map, in the order of the dict
month_map == <<
    [name |-> <<2460, 2494, 2472, 2497, 2479, 2492, 2494, 2480, 2495>>, num |-> <<48, 49>>],
    [name |-> <<2475, 2503, 2476, 2509, 2480, 2497, 2479, 2492, 2494, 2480, 2495>>, num |-> <<48, 50>>],
    [name |-> <<2478, 2494, 2480, 2509, 2458>>, num |-> <<48, 51>>],
    [name |-> <<2447, 2474, 2509, 2480, 2495, 2482>>, num |-> <<48, 52>>],
    [name |-> <<2478, 2503>>, num |-> <<48, 53>>],
    [name |-> <<2460, 2497, 2472>>, num |-> <<48, 54>>],
    [name |-> <<2460, 2497, 2482, 2494, 2439>>, num |-> <<48, 55>>],
    [name |-> <<2438, 2455, 2488, 2509, 2463>>, num |-> <<48, 56>>],
    [name |-> <<2488, 2503, 2474, 2509, 2463, 2503, 2478, 2509, 2476, 2480>>, num |-> <<48, 57>>],
    [name |-> <<2437, 2453, 2509, 2463, 2507, 2476, 2480>>, num |-> <<49, 48>> ],
    [name |-> <<2472, 2477, 2503, 2478, 2509, 2476, 2480>>, num |-> <<49, 49>>],
    [name |-> <<2465, 2495, 2488, 2503, 2478, 2509, 2476, 2480>>, num |-> <<49, 50>>] >>

IsBengaliDigit(c) == BENGALI_ZERO <= c /\ c <= BENGALI_ZERO + 9

\* the ten english_date.replace(bengali, english) calls
bengali_to_english(s) ==
    [i \in 1..Len(s) |->
        IF IsBengaliDigit(s[i]) THEN s[i] - BENGALI_ZERO + Chr.zero ELSE s[i]]

\* `sub in s`
Contains(s, sub) ==
    \E i \in 0..(Len(s) - Len(sub)) : SubSeq(s, i + 1, i + Len(sub)) = sub

\* s.split(): the runs of non-blank characters
RECURSIVE SplitBlank(_, _)
SplitBlank(s, cur) ==
    IF s = <<>> THEN (IF cur = <<>> THEN <<>> ELSE <<cur>>)
    ELSE IF Head(s) = Chr.space
         THEN (IF cur = <<>> THEN <<>> ELSE <<cur>>) \o SplitBlank(Tail(s), <<>>)
         ELSE SplitBlank(Tail(s), Append(cur, Head(s)))

\* s.split(sep): empty pieces are kept
RECURSIVE SplitAt(_, _, _)
SplitAt(s, sep, cur) ==
    IF s = <<>> THEN <<cur>>
    ELSE IF Head(s) = sep THEN <<cur>> \o SplitAt(Tail(s), sep, <<>>)
    ELSE SplitAt(Tail(s), sep, Append(cur, Head(s)))

\* part.isdigit()
IsDigit(part) ==
    /\ part # <<>>
    /\ \A i \in 1..Len(part) :
          \/ Chr.zero <= part[i] /\ part[i] <= Chr.nine
          \/ IsBengaliDigit(part[i])

\* s.zfill(width)
ZFill(s, width) ==
    IF Len(s) >= width THEN s ELSE [i \in 1..(width - Len(s)) |-> Chr.zero] \o s

\* datetime.now().isoformat(): a naive timestamp of the moment of the call,
\* which never carries the +06:00 offset
Now == [tag |-> "now"]
Iso(text) == [tag |-> "iso", text |-> text]

\* `for part in parts`: a later part overwrites what an earlier one set, so
\* the last hit counts; 0 when there is none
LastOf(hits) ==
    IF hits = {} THEN 0 ELSE CHOOSE i \in hits : \A j \in hits : j <= i

IsYearPart(part) == Len(part) = 4 /\ IsDigit(part)
IsTimePart(part) == ~IsYearPart(part) /\ Contains(part, <<Chr.colon>>)

YearIndex(parts) == LastOf({i \in 1..Len(parts) : IsYearPart(parts[i])})
TimeIndex(parts) == LastOf({i \in 1..Len(parts) : IsTimePart(parts[i])})

\* the body of `if bengali_month in english_date:` when a year was found
FormatDate(parts, month_num) ==
    LET day       == ZFill(parts[1], 2)
        year      == parts[YearIndex(parts)]
        timeIndex == TimeIndex(parts)
        hm        == SplitAt(parts[timeIndex], Chr.colon, <<>>)
    IN  IF timeIndex # 0
        THEN year \o <<Chr.minus>> \o month_num \o <<Chr.minus>> \o day \o <<Chr.T>>
                 \o ZFill(hm[1], 2) \o <<Chr.colon>> \o ZFill(hm[2], 2)
                 \o <<Chr.colon, 48, 48, Chr.plus, 48, 54, Chr.colon, 48, 48>>
        ELSE year \o <<Chr.minus>> \o month_num \o <<Chr.minus>> \o day \o <<Chr.T>>
                 \o <<48, 48, Chr.colon, 48, 48, Chr.colon, 48, 48,
                      Chr.plus, 48, 54, Chr.colon, 48, 48>>

\* `for bengali_month, month_num in month_map.items()` from entry m on
RECURSIVE ConvertFrom(_, _)
ConvertFrom(english_date, m) ==
    IF m > Len(month_map) THEN Now
    ELSE IF /\ Contains(english_date, month_map[m].name)
            /\ YearIndex(SplitBlank(english_date, <<>>)) # 0
         THEN Iso(FormatDate(SplitBlank(english_date, <<>>), month_map[m].num))
         ELSE ConvertFrom(english_date, m + 1)

convert_bengali_date(bengali_date) ==
    ConvertFrom(bengali_to_english(bengali_date), 1)

\* ---- the dates that are converted, and how they are written ----
RECURSIVE Digits(_)
Digits(n) == IF n < 10 THEN <<n>> ELSE Digits(n \div 10) \o <<n % 10>>

\* n in Bengali numerals, as the site prints it
BengaliNumeral(n) == [i \in 1..Len(Digits(n)) |-> BENGALI_ZERO + Digits(n)[i]]
BengaliTwoDigits(n) == <<BENGALI_ZERO + (n \div 10), BENGALI_ZERO + (n % 10)>>

\* n in ASCII digits, padded to `width`
Decimal(n, width) == ZFill([i \in 1..Len(Digits(n)) |-> Chr.zero + Digits(n)[i]], width)

NoTime == [tag |-> "notime"]
TimeAt(h, m) == [tag |-> "time", hour |-> h, minute |-> m]

DaySamples == {1, 13, 31}
YearSamples == {1999, 2025}
TimeSamples == {NoTime, TimeAt(23, 11), TimeAt(0, 5), TimeAt(9, 30)}

\* '<day> <month name> <year>' with an optional ', <HH:MM>'
BengaliDateText(day, month, year, time) ==
    BengaliNumeral(day) \o <<Chr.space>> \o month_map[month].name \o <<Chr.space>>
        \o BengaliNumeral(year)
        \o (IF time = NoTime THEN <<>>
            ELSE <<Chr.comma, Chr.space>> \o BengaliTwoDigits(time.hour)
                     \o <<Chr.colon>> \o BengaliTwoDigits(time.minute))

\* 'YYYY-MM-DDTHH:MM:00+06:00' of the same date
IsoDateText(day, month, year, time) ==
    Decimal(year, 4) \o <<Chr.minus>> \o Decimal(month, 2) \o <<Chr.minus>>
        \o Decimal(day, 2) \o <<Chr.T>>
        \o Decimal(IF time = NoTime THEN 0 ELSE time.hour, 2) \o <<Chr.colon>>
        \o Decimal(IF time = NoTime THEN 0 ELSE time.minute, 2)
        \o <<Chr.colon, 48, 48, Chr.plus, 48, 54, Chr.colon, 48, 48>>

\* _extract_date found the date text in the page and converts it
extract_date ==
    /\ dResult = Pending
    /\ dResult' = convert_bengali_date(dInput)
    /\ UNCHANGED <<dDay, dMonth, dYear, dTime, dInput>>
    /\ UNCHANGED notDate

DateInit ==
    /\ dDay \in DaySamples
    /\ dMonth \in 1..Len(month_map)
    /\ dYear \in YearSamples
    /\ dTime \in TimeSamples
    /\ dInput = BengaliDateText(dDay, dMonth, dYear, dTime)
    /\ dResult = Pending

DateIdle ==
    /\ dDay = 0
    /\ dMonth = 0
    /\ dYear = 0
    /\ dTime = NoTime
    /\ dInput = <<>>
    /\ dResult = Idle

DateNext == extract_date

(***************************************************************************)
(* gather_articles_from_sitemaps (prothomalo.py).  A sitemap is the        *)
(* sequence of its entries; an entry has a <loc> and may have a            *)
(* <news:publication_date> and a <lastmod> (NoDate: the element is         *)
(* absent).  A loc is a URL number and what the filters see of it:         *)
(* "article" (under BASE_URL with an article path), "page" (under          *)
(* BASE_URL, no article path), "external" (another site) or "relative"     *)
(* (does not start with http).                                             *)
(***************************************************************************)
Loc(u, kind) == [url |-> u, kind |-> kind]
Entry(loc, pub, lastmod) == [loc |-> loc, pub |-> pub, lastmod |-> lastmod]

Today9     == DateAt(TodayBD, 9, BD_UTC_OFFSET)
Yesterday  == DateAt(TodayBD - 1, 23, BD_UTC_OFFSET)
UtcEvening == DateAt(TodayBD - 1, 20, 0)

SmEmpty       == <<>>
SmToday       == <<Entry(Loc(1, "article"), Today9, NoDate)>>
SmYesterday   == <<Entry(Loc(1, "article"), Yesterday, NoDate)>>
SmUtcEvening  == <<Entry(Loc(2, "article"), UtcEvening, NoDate)>>
SmLastmodOnly == <<Entry(Loc(1, "article"), NoDate, Today9),
                   Entry(Loc(2, "article"), NoDate, Yesterday)>>
SmBothDates   == <<Entry(Loc(3, "article"), Today9, Yesterday),
                   Entry(Loc(4, "article"), Yesterday, Today9)>>
SmMixed       == <<Entry(Loc(1, "article"), NoDate, Yesterday),
                   Entry(Loc(2, "article"), Today9, NoDate)>>
SmUndated     == <<Entry(Loc(3, "article"), NoDate, NoDate)>>
SmBadDate     == <<Entry(Loc(3, "article"), BadDate, NoDate)>>
SmOtherLocs   == <<Entry(Loc(5, "page"), Today9, NoDate),
                   Entry(Loc(6, "external"), Today9, NoDate),
                   Entry(Loc(7, "relative"), Today9, NoDate)>>
SmFour        == <<Entry(Loc(1, "article"), Today9, NoDate),
                   Entry(Loc(2, "article"), Today9, NoDate),
                   Entry(Loc(3, "article"), Today9, NoDate),
                   Entry(Loc(4, "article"), Today9, NoDate)>>

SitemapSamples == {SmEmpty, SmToday, SmYesterday, SmUtcEvening, SmLastmodOnly,
                   SmBothDates, SmMixed, SmUndated, SmBadDate, SmOtherLocs, SmFour}

\* re.findall over the whole text: the elements of one kind, in document order
RECURSIVE FindAll(_, _)
FindAll(sitemap, field) ==
    IF sitemap = <<>> THEN <<>>
    ELSE (IF Head(sitemap)[field] = NoDate THEN <<>> ELSE <<Head(sitemap)[field]>>)
             \o FindAll(Tail(sitemap), field)

\* raw_dt of the loc at index idx (counted from 1)
RawDate(sitemap, idx) ==
    LET pub_dates == FindAll(sitemap, "pub")
        lastmods  == FindAll(sitemap, "lastmod")
    IN  IF idx <= Len(pub_dates) THEN pub_dates[idx]
        ELSE IF idx <= Len(lastmods) THEN lastmods[idx]
        ELSE None

\* the body of `for idx, loc in enumerate(locs)`: is loc added to article_urls
LocIsKept(sitemap, idx) ==
    LET loc == sitemap[idx].loc
        raw_dt == RawDate(sitemap, idx)
        iso == IF raw_dt = None THEN None ELSE parse_datetime_iso(raw_dt)
    IN  /\ loc.kind # "relative"
        /\ ~(iso # None /\ DhakaDay(iso) # TodayBD)
        /\ loc.kind = "article"

\* the date the sitemap gives for an entry: news:publication_date, else lastmod
OwnDate(entry) == IF entry.pub # NoDate THEN entry.pub ELSE entry.lastmod

IsDatedToday(entry) ==
    /\ OwnDate(entry).tag = "date"
    /\ DhakaDay(OwnDate(entry)) = TodayBD

\* limit > 0 and len(article_urls) >= limit * 4
SitemapCapReached(urls, limit) ==
    limit > 0 /\ Cardinality(urls) >= limit * SITEMAP_CAP_FACTOR

\* fetch_sitemap_urls: robots.txt is fetched and lists the sitemaps
gather_fetch_sitemap_urls ==
    /\ sPc = "robots"
    /\ \E n \in 0..NSitemaps :
          /\ sUrls' = n
          /\ sPc' = IF n = 0 THEN "returned" ELSE "sitemaps"
    /\ UNCHANGED <<sLimit, sIndex, sArticleUrls, sDatedToday>>
    /\ UNCHANGED notSitemap

\* one pass of `for sm_url in urls`
gather_sitemap ==
    /\ sPc = "sitemaps"
    /\ sIndex <= sUrls
    /\ ~SitemapCapReached(sArticleUrls, sLimit)
    /\ \/ UNCHANGED <<sArticleUrls, sDatedToday>>
       \/ \E sitemap \in SitemapSamples :
             LET articles == {i \in 1..Len(sitemap) : sitemap[i].loc.kind = "article"}
             IN  /\ sArticleUrls' = sArticleUrls \cup
                       {sitemap[i].loc.url : i \in {j \in 1..Len(sitemap) : LocIsKept(sitemap, j)}}
                 /\ sDatedToday' = sDatedToday \cup
                       {sitemap[i].loc.url : i \in {j \in articles : IsDatedToday(sitemap[j])}}
    /\ sIndex' = sIndex + 1
    /\ UNCHANGED <<sLimit, sPc, sUrls>>
    /\ UNCHANGED notSitemap

\* the loop ends (exhausted, or `break`): `return article_urls`
gather_return ==
    /\ sPc = "sitemaps"
    /\ sIndex > sUrls \/ SitemapCapReached(sArticleUrls, sLimit)
    /\ sPc' = "returned"
    /\ UNCHANGED <<sLimit, sUrls, sIndex, sArticleUrls, sDatedToday>>
    /\ UNCHANGED notSitemap

SitemapInit ==
    /\ sLimit \in 0..MaxLimit
    /\ sPc = "robots"
    /\ sUrls = 0
    /\ sIndex = 1
    /\ sArticleUrls = {}
    /\ sDatedToday = {}

SitemapIdle ==
    /\ sLimit = 0
    /\ sPc = "idle"
    /\ sUrls = 0
    /\ sIndex = 0
    /\ sArticleUrls = {}
    /\ sDatedToday = {}

SitemapNext ==
    \/ gather_fetch_sitemap_urls
    \/ gather_sitemap
    \/ gather_return

(***************************************************************************)
(* The cache of the package (utils/cache.py).                              *)
(***************************************************************************)
\* the urls that the cache is asked about, and per url the articles that a
\* scraper may have built for it: Article(...) called at hour `now`
CacheUrls == {1, 2}

ArticleOf(u, v, now) ==
    post_init([tag |-> "article",
               title |-> Str(MIN_TITLE_LEN + v, v % 2),
               content |-> Str(MIN_CONTENT_LEN + v, 0),
               url |-> Url("https", "tld", 3, "/p", 0),
               scraped_at |-> IF v = 1 THEN None ELSE Stamp(0 - v)], now)

ArticleVersions == {1, 2}

\* _get_cache_key: the MD5 digest of the url; the digests of the urls of
\* CacheUrls differ
KeyShared(url) == <<"md5", 0>>

get_cache_key(url) == <<"md5", url>>

CacheKeys == {get_cache_key(u) : u \in CacheUrls}

NoFile == [tag |-> "nofile"]

\* a cache file: its modification hour and what it holds. "json": what
\* set() wrote; "truncated": text that json.load rejects (JSONDecodeError);
\* "not_utf8": bytes that the utf-8 reader rejects (UnicodeDecodeError);
\* "title_number": a JSON object whose title is a number, on which
\* __post_init__ calls strip() (AttributeError)
File(mtime, kind, data) == [tag |-> "file", mtime |-> mtime, kind |-> kind, data |-> data]

DamageKinds == {"truncated", "not_utf8", "title_number"}

\* the exceptions that get() catches: OSError, json.JSONDecodeError, TypeError
CaughtKinds == {"truncated"}

GetRaised(kind) == [tag |-> "raised", kind |-> kind]

\* ArticleCache.__init__: `cache_duration_hours or Config.CACHE_DURATION_HOURS`
cache_duration(hours) == IF hours = 0 THEN CACHE_DURATION_HOURS ELSE hours

\* _is_cache_valid: the file exists and now - mtime < cache_duration
ValidUpToTtl(files, key, now, duration) ==
    /\ files[key] # NoFile
    /\ now - files[key].mtime <= duration

is_cache_valid(files, key, now, duration) ==
    /\ files[key] # NoFile
    /\ now - files[key].mtime < duration

\* what get() returns for a valid file
Loaded(file, now) ==
    IF file.kind = "json" THEN from_dict(file.data, now)
    ELSE IF file.kind \in CaughtKinds THEN None
    ELSE GetRaised(file.kind)

\* ArticleCache.get
get(url) ==
    LET key == get_cache_key(url) IN
    /\ cOp' = [op |-> "get", url |-> url,
               result |-> IF ~cEnabled THEN None
                          ELSE IF ~is_cache_valid(cFiles, key, cNow, cDuration) THEN None
                          ELSE Loaded(cFiles[key], cNow)]
    /\ IF /\ cEnabled
          /\ is_cache_valid(cFiles, key, cNow, cDuration)
          /\ cFiles[key].kind \in CaughtKinds
       THEN /\ cFiles' = [cFiles EXCEPT ![key] = NoFile]
            /\ cLast' = [cLast EXCEPT ![url] = None]
       ELSE UNCHANGED <<cFiles, cLast>>
    /\ UNCHANGED <<cEnabled, cDuration, cNow>>
    /\ UNCHANGED notCache

\* ArticleCache.set
set(url, article) ==
    /\ IF cEnabled
       THEN /\ cFiles' = [cFiles EXCEPT ![get_cache_key(url)] =
                             File(cNow, "json", to_dict(article))]
            /\ cLast' = [cLast EXCEPT ![url] = [article |-> article, at |-> cNow]]
       ELSE UNCHANGED <<cFiles, cLast>>
    /\ cOp' = [op |-> "set", url |-> url, result |-> None]
    /\ UNCHANGED <<cEnabled, cDuration, cNow>>
    /\ UNCHANGED notCache

\* the files that clear() removes: every file of the directory
OnlyExpired(files, now, duration) ==
    {k \in CacheKeys : files[k] # NoFile /\ ~is_cache_valid(files, k, now, duration)}

ClearTargets(files, now, duration) == {k \in CacheKeys : files[k] # NoFile}

\* ArticleCache.clear
clear ==
    LET targets == ClearTargets(cFiles, cNow, cDuration) IN
    /\ cFiles' = [k \in CacheKeys |-> IF k \in targets THEN NoFile ELSE cFiles[k]]
    /\ cLast' = [u \in CacheUrls |-> None]
    /\ cOp' = [op |-> "clear", url |-> 0, result |-> Cardinality(targets),
               stored |-> {u \in CacheUrls : cLast[u] # None}]
    /\ UNCHANGED <<cEnabled, cDuration, cNow>>
    /\ UNCHANGED notCache

\* time passes between two calls
tick ==
    /\ cNow + TickHours <= MaxClock
    /\ cNow' = cNow + TickHours
    /\ cOp' = [op |-> "tick", url |-> 0, result |-> None]
    /\ UNCHANGED <<cEnabled, cDuration, cFiles, cLast>>
    /\ UNCHANGED notCache

\* a cache file is damaged on disk; its modification time stays
damage(url, kind) ==
    LET key == get_cache_key(url) IN
    /\ cFiles[key] # NoFile
    /\ cFiles[key].kind = "json"
    /\ cFiles' = [cFiles EXCEPT ![key] = File(@.mtime, kind, None)]
    /\ cOp' = [op |-> "damage", url |-> url, result |-> None]
    /\ UNCHANGED <<cEnabled, cDuration, cNow, cLast>>
    /\ UNCHANGED notCache

CacheInit ==
    /\ cEnabled \in BOOLEAN
    /\ \E hours \in {0, TickHours} : cDuration = cache_duration(hours)
    /\ cNow = 0
    /\ cFiles = [k \in CacheKeys |-> NoFile]
    /\ cLast = [u \in CacheUrls |-> None]
    /\ cOp = [op |-> "init", url |-> 0, result |-> None]

CacheIdle ==
    /\ cEnabled = FALSE
    /\ cDuration = 0
    /\ cNow = 0
    /\ cFiles = <<>>
    /\ cLast = <<>>
    /\ cOp = Idle

CacheNext ==
    \/ \E u \in CacheUrls : get(u)
    \/ \E u \in CacheUrls, v \in ArticleVersions : set(u, ArticleOf(u, v, cNow))
    \/ clear
    \/ tick
    \/ \E u \in CacheUrls, kind \in DamageKinds : damage(u, kind)

(***************************************************************************)
(* Building an Article and asking is_valid() (models.py).                  *)
(***************************************************************************)
\* arguments of Article(...): None, the empty string, padded and unpadded
\* strings around the two length limits
TitleSamples ==
    {None, Str(0, 0), Str(0, 2)}
    \cup {Str(n, pad) : n \in {MIN_TITLE_LEN - 2, MIN_TITLE_LEN - 1, MIN_TITLE_LEN,
                                MIN_TITLE_LEN + 1}, pad \in {0, 1}}

ContentSamples ==
    {None, Str(0, 0)}
    \cup {Str(n, pad) : n \in {MIN_CONTENT_LEN - 1, MIN_CONTENT_LEN}, pad \in {0, 1}}

TldSamples == {TLD_MIN - 1, TLD_MIN, TLD_MAX, TLD_MAX + 1, TLD_MAX + MaxTldExtra}

UrlSamples ==
    {None, Url("", "", 0, "", 0)}
    \cup {Url(scheme, "tld", tld, path, pad) :
             scheme \in {"https", "http", "ftp", ""}, tld \in TldSamples,
             path \in {"", "/", "/p", "/p q"}, pad \in {0, 1}}
    \cup {Url(scheme, host, 0, path, 0) :
             scheme \in {"https", "ftp", ""}, host \in {"localhost", "ipv4", "label", ""},
             path \in {"", "/p"}}

\* Article(title=..., content=..., url=...): the dataclass __init__, which
\* ends with __post_init__
article_new ==
    /\ vPc = "new"
    /\ vArticle' = post_init([tag |-> "article", title |-> vTitle,
                              content |-> vContent, url |-> vUrl,
                              scraped_at |-> None], 0)
    /\ vPc' = "built"
    /\ UNCHANGED <<vTitle, vContent, vUrl, vValid>>
    /\ UNCHANGED notValid

\* article.is_valid()
article_is_valid ==
    /\ vPc = "built"
    /\ vValid' = is_valid(vArticle)
    /\ vPc' = "checked"
    /\ UNCHANGED <<vTitle, vContent, vUrl, vArticle>>
    /\ UNCHANGED notValid

ValidInit ==
    /\ vTitle \in TitleSamples
    /\ vContent \in ContentSamples
    /\ vUrl \in UrlSamples
    /\ vPc = "new"
    /\ vArticle = None
    /\ vValid = FALSE

ValidIdle ==
    /\ vTitle = None
    /\ vContent = None
    /\ vUrl = None
    /\ vPc = "idle"
    /\ vArticle = None
    /\ vValid = FALSE

ValidNext ==
    \/ article_new
    \/ article_is_valid

(***************************************************************************)
(* The requests and sleeps of scrape_today (prothomalo.py): the robots.txt *)
(* read, the discovery phases that the mode selects, and the article       *)
(* fetches of the pool.  A GET is recorded with its phase and what its     *)
(* thread did just before it: "polite" (polite_sleep(min_delay,            *)
(* max_delay) slept), "backoff" (the sleep behind a failed attempt) or     *)
(* "nosleep".  The harvest loop itself is the subject of the scrape_today  *)
(* part above.                                                             *)
(***************************************************************************)
RunModes == {"simple", "crawl", "sitemap", "hybrid"}

RunUrls == 1..NRunUrls

\* the article URLs that one page, or one sitemap, adds
FoundSamples == {{}, {1}, RunUrls}

\* `if mode in (...)` in front of each discovery phase
Selected(phase, mode) ==
    \/ phase = "seeds" /\ mode \in {"simple", "hybrid", "crawl"}
    \/ phase = "crawl" /\ mode \in {"crawl", "hybrid"}
    \/ phase = "sitemap" /\ mode \in {"sitemap", "hybrid"}

Phases == <<"seeds", "crawl", "sitemap">>

PhaseIndex(phase) == IF phase = "robots" THEN 0
                     ELSE CHOOSE i \in 1..Len(Phases) : Phases[i] = phase

\* where the calling thread goes when `phase` has returned
PhaseAfterOne(phase, mode) ==
    IF phase # "robots" THEN "submit"
    ELSE IF Selected("seeds", mode) THEN "seeds" ELSE "sitemap"

PhaseAfter(phase, mode) ==
    LET later == {i \in 1..Len(Phases) : i > PhaseIndex(phase) /\ Selected(Phases[i], mode)}
    IN  IF later = {} THEN "submit"
        ELSE Phases[CHOOSE i \in later : \A j \in later : i <= j]

\* how a call of request_with_retries goes: the GETs it issues, and whether
\* it ends with a response ("ok"), on a 404 or 410 ("permanent"), or after
\* the back-off sleep behind its last attempt ("exhausted")
RequestOutcomes ==
    {[gets |-> k, end |-> e] : k \in 1..MAX_RETRIES, e \in {"ok", "permanent"}}
    \cup {[gets |-> MAX_RETRIES, end |-> "exhausted"]}

\* the GETs of one call: the first follows what the thread did before the
\* call, each later one the back-off sleep behind the failed attempt
RequestGets(phase, before, out) ==
    {[phase |-> phase, before |-> IF i = 1 THEN before ELSE "backoff"] : i \in 1..out.gets}

LastAfterRequest(out) == IF out.end = "exhausted" THEN "backoff" ELSE "nosleep"

\* polite_sleep(min_delay, max_delay): no sleep when max_delay <= 0
AfterPoliteSleep(max_delay) == IF max_delay <= 0 THEN "nosleep" ELSE "polite"

\* the dry run returns the samples without any request
run_dry ==
    /\ rPc = "start"
    /\ rDryRun
    /\ rPc' = "returned"
    /\ UNCHANGED <<rDryRun, rMode, rLimit, rMaxDelay, rSeed, rCrawled, rCrawlUrls,
                   rSitemaps, rSitemapUrls, rCandidates, rLast, rGets, rState, rDone>>
    /\ UNCHANGED notRun

\* read_crawl_delay: one requests.get of robots.txt
run_read_crawl_delay ==
    /\ rPc = "start"
    /\ ~rDryRun
    /\ rGets' = rGets \cup {[phase |-> "robots", before |-> rLast]}
    /\ rPc' = PhaseAfter("robots", rMode)
    /\ UNCHANGED <<rDryRun, rMode, rLimit, rMaxDelay, rSeed, rCrawled, rCrawlUrls,
                   rSitemaps, rSitemapUrls, rCandidates, rLast, rState, rDone>>
    /\ UNCHANGED notRun

\* one pass of `for path in seed_paths`, or the end of the loop
run_seed ==
    /\ rPc = "seeds"
    /\ IF rSeed > NSeeds
       THEN /\ rPc' = PhaseAfter("seeds", rMode)
            /\ rDone' = rDone \cup {"seeds"}
            /\ UNCHANGED <<rSeed, rCandidates, rLast, rGets>>
       ELSE \E out \in RequestOutcomes, found \in FoundSamples :
               LET urls == IF out.end = "ok" THEN rCandidates \cup found ELSE rCandidates
                   stop == out.end = "ok" /\ rLimit > 0
                           /\ Cardinality(urls) >= rLimit * SEED_CAP_FACTOR
               IN  /\ rGets' = rGets \cup RequestGets("seeds", rLast, out)
                   /\ rLast' = LastAfterRequest(out)
                   /\ rCandidates' = urls
                   /\ rSeed' = rSeed + 1
                   /\ rPc' = IF stop THEN PhaseAfter("seeds", rMode) ELSE rPc
                   /\ rDone' = IF stop THEN rDone \cup {"seeds"} ELSE rDone
    /\ UNCHANGED <<rDryRun, rMode, rLimit, rMaxDelay, rCrawled, rCrawlUrls,
                   rSitemaps, rSitemapUrls, rState>>
    /\ UNCHANGED notRun

\* one pass of `while queue` of crawl_for_article_urls that requests a page,
\* or its return when the queue is empty
run_crawl ==
    /\ rPc = "crawl"
    /\ \/ /\ rCrawled < NCrawlPages
          /\ \E out \in RequestOutcomes, found \in FoundSamples :
                LET urls == IF out.end = "ok" THEN rCrawlUrls \cup found ELSE rCrawlUrls
                    stop == out.end = "ok" /\ rLimit > 0
                            /\ Cardinality(urls) >= rLimit * CRAWL_CAP_FACTOR
                IN  /\ rGets' = rGets \cup RequestGets("crawl", rLast, out)
                    /\ rLast' = LastAfterRequest(out)
                    /\ rCrawlUrls' = IF stop THEN {} ELSE urls
                    /\ rCrawled' = IF stop THEN 0 ELSE rCrawled + 1
                    /\ rPc' = IF stop THEN PhaseAfter("crawl", rMode) ELSE rPc
                    /\ rDone' = IF stop THEN rDone \cup {"crawl"} ELSE rDone
                    /\ rCandidates' = IF stop THEN rCandidates \cup urls ELSE rCandidates
       \/ /\ rPc' = PhaseAfter("crawl", rMode)
          /\ rDone' = rDone \cup {"crawl"}
          /\ rCandidates' = rCandidates \cup rCrawlUrls
          /\ rCrawled' = 0
          /\ rCrawlUrls' = {}
          /\ UNCHANGED <<rLast, rGets>>
    /\ UNCHANGED <<rDryRun, rMode, rLimit, rMaxDelay, rSeed, rSitemaps, rSitemapUrls,
                   rState>>
    /\ UNCHANGED notRun

\* fetch_sitemap_urls: the request of robots.txt for its Sitemap lines
run_sitemap_robots ==
    /\ rPc = "sitemap"
    /\ \E out \in RequestOutcomes, n \in 0..NSitemaps :
          /\ rGets' = rGets \cup RequestGets("sitemap_robots", rLast, out)
          /\ rLast' = LastAfterRequest(out)
          /\ IF out.end = "ok" /\ n > 0
             THEN /\ rSitemaps' = n
                  /\ rPc' = "sitemaps"
                  /\ UNCHANGED rDone
             ELSE /\ rPc' = PhaseAfter("sitemap", rMode)
                  /\ rDone' = rDone \cup {"sitemap"}
                  /\ UNCHANGED rSitemaps
    /\ UNCHANGED <<rDryRun, rMode, rLimit, rMaxDelay, rSeed, rCrawled, rCrawlUrls,
                   rSitemapUrls, rCandidates, rState>>
    /\ UNCHANGED notRun

\* one pass of `for sm_url in urls` of gather_articles_from_sitemaps, or
\* its return
run_sitemap ==
    /\ rPc = "sitemaps"
    /\ IF rSitemaps = 0
          \/ (rLimit > 0 /\ Cardinality(rSitemapUrls) >= rLimit * SITEMAP_CAP_FACTOR)
       THEN /\ rPc' = PhaseAfter("sitemap", rMode)
            /\ rDone' = rDone \cup {"sitemap"}
            /\ rCandidates' = rCandidates \cup rSitemapUrls
            /\ rSitemaps' = 0
            /\ rSitemapUrls' = {}
            /\ UNCHANGED <<rLast, rGets>>
       ELSE \E out \in RequestOutcomes, found \in FoundSamples :
               /\ rGets' = rGets \cup RequestGets("sitemap", rLast, out)
               /\ rLast' = LastAfterRequest(out)
               /\ rSitemapUrls' = IF out.end = "ok" THEN rSitemapUrls \cup found
                                   ELSE rSitemapUrls
               /\ rSitemaps' = rSitemaps - 1
               /\ UNCHANGED <<rPc, rDone, rCandidates>>
    /\ UNCHANGED <<rDryRun, rMode, rLimit, rMaxDelay, rSeed, rCrawled, rCrawlUrls,
                   rState>>
    /\ UNCHANGED notRun

\* fetch_list, as a set: the first limit * 6 candidates when limit > 0
RunWorklist(candidates, limit) ==
    {u \in candidates :
        limit = 0 \/ Cardinality({v \in candidates : v <= u}) <= limit * FETCH_CAP_FACTOR}

\* `if not candidate_urls: return []`, else one executor.submit per
\* worklist URL
run_submit ==
    /\ rPc = "submit"
    /\ IF rCandidates = {}
       THEN /\ rPc' = "returned"
            /\ UNCHANGED rState
       ELSE /\ rState' = [u \in RunWorklist(rCandidates, rLimit) |-> "queued"]
            /\ rPc' = "collect"
    /\ UNCHANGED <<rDryRun, rMode, rLimit, rMaxDelay, rSeed, rCrawled, rCrawlUrls,
                   rSitemaps, rSitemapUrls, rCandidates, rLast, rGets, rDone>>
    /\ UNCHANGED notRun

RunStarted == {u \in DOMAIN rState : rState[u] # "queued"}

\* a free worker of the pool takes a queued future: fetch_and_parse(url)
\* starts
run_worker_start(u) ==
    /\ u \in DOMAIN rState
    /\ rState[u] = "queued"
    /\ Cardinality({v \in DOMAIN rState : rState[v] = "running"}) < MaxWorkers
    /\ rState' = [rState EXCEPT ![u] = "running"]
    /\ UNCHANGED <<rDryRun, rMode, rLimit, rMaxDelay, rPc, rSeed, rCrawled, rCrawlUrls,
                   rSitemaps, rSitemapUrls, rCandidates, rLast, rGets, rDone>>
    /\ UNCHANGED notRun

\* fetch_and_parse(url): polite_sleep(min_delay, max_delay), then
\* request_with_retries(url)
run_worker_fetch(u) ==
    /\ u \in DOMAIN rState
    /\ rState[u] = "running"
    /\ \E out \in RequestOutcomes :
          rGets' = rGets \cup RequestGets("article", AfterPoliteSleep(rMaxDelay), out)
    /\ rState' = [rState EXCEPT ![u] = "done"]
    /\ UNCHANGED <<rDryRun, rMode, rLimit, rMaxDelay, rPc, rSeed, rCrawled, rCrawlUrls,
                   rSitemaps, rSitemapUrls, rCandidates, rLast, rDone>>
    /\ UNCHANGED notRun

\* the `with` block is left once every future has run; scrape_today returns
run_return ==
    /\ rPc = "collect"
    /\ \A u \in DOMAIN rState : rState[u] = "done"
    /\ rPc' = "returned"
    /\ UNCHANGED <<rDryRun, rMode, rLimit, rMaxDelay, rSeed, rCrawled, rCrawlUrls,
                   rSitemaps, rSitemapUrls, rCandidates, rLast, rGets, rState, rDone>>
    /\ UNCHANGED notRun

RunInit ==
    /\ rDryRun \in BOOLEAN
    /\ rMode \in RunModes
    /\ rLimit \in 0..1
    /\ rMaxDelay \in {0, DEFAULT_MAX_DELAY_TENTHS}
    /\ rPc = "start"
    /\ rSeed = 1
    /\ rCrawled = 0
    /\ rCrawlUrls = {}
    /\ rSitemaps = 0
    /\ rSitemapUrls = {}
    /\ rCandidates = {}
    /\ rLast = "nosleep"
    /\ rGets = {}
    /\ rState = <<>>
    /\ rDone = {}

RunIdle ==
    /\ rDryRun = FALSE
    /\ rMode = "idle"
    /\ rLimit = 0
    /\ rMaxDelay = 0
    /\ rPc = "idle"
    /\ rSeed = 0
    /\ rCrawled = 0
    /\ rCrawlUrls = {}
    /\ rSitemaps = 0
    /\ rSitemapUrls = {}
    /\ rCandidates = {}
    /\ rLast = "nosleep"
    /\ rGets = {}
    /\ rState = <<>>
    /\ rDone = {}

RunNext ==
    \/ run_dry
    \/ run_read_crawl_delay
    \/ run_seed
    \/ run_crawl
    \/ run_sitemap_robots
    \/ run_sitemap
    \/ run_submit
    \/ \E u \in RunUrls : run_worker_start(u)
    \/ \E u \in RunUrls : run_worker_fetch(u)
    \/ run_return

(***************************************************************************)
(* The command entry points: prothomalo.main, whose return value is the    *)
(* exit status (raise SystemExit(main())), and the click commands `main`   *)
(* of the package (bangla_news_scraper/cli.py) and of the first version    *)
(* (cli.py).  A click command that returns ends the process with status 0; *)
(* one that raises click.ClickException ends it with that exception's      *)
(* exit_code.                                                              *)
(***************************************************************************)
Entries == {"prothomalo", "pkg_cli", "legacy_cli"}

\* how a scraping call ends: with articles, with none, with an exception,
\* or with KeyboardInterrupt
ScrapeOutcomes == {"result", "empty", "error", "interrupt"}

\* how writing the output ends
SaveOutcomes == {"ok", "error", "interrupt"}

\* the sites that --site=all scrapes
ConfiguredSites == {"prothom-alo", "ittefaq"}

Exited(code, cause) ==
    /\ ePc' = "exited"
    /\ eCode' = code
    /\ eCause' = cause

\* what the entry point does with KeyboardInterrupt: prothomalo.main
\* returns 130; the click commands print a warning and return
InterruptExit(entry) == IF entry = "prothomalo" THEN INTERRUPT_EXIT ELSE 0

\* what it does with an exception that reaches its handler
ErrorExit(entry) == IF entry = "prothomalo" THEN ERROR_EXIT ELSE CLICK_EXCEPTION_EXIT

\* the part of main in front of the scraping
main_start ==
    /\ ePc = "start"
    /\ IF \/ eEntry # "prothomalo" /\ ~eRun
          \/ eEntry = "pkg_cli" /\ eCacheOp = "stats"
       THEN Exited(0, "none")
       ELSE /\ ePc' = "scrape"
            /\ UNCHANGED <<eCode, eCause>>
    /\ UNCHANGED <<eEntry, eRun, eCacheOp, eSite, eOutput, eSaved, eSitesLeft, eResults>>
    /\ UNCHANGED notExit

\* one scraping call: scrape_today, scraper.scrape_articles, or
\* scrape_single_site (inside `except Exception: continue` for --site=all)
main_scrape ==
    /\ ePc = "scrape"
    /\ \E out \in ScrapeOutcomes :
          IF out = "interrupt" THEN
              /\ Exited(InterruptExit(eEntry), "interrupt")
              /\ UNCHANGED <<eSitesLeft, eResults, eSaved>>
          ELSE IF eEntry = "prothomalo" THEN
              /\ IF out = "error" THEN Exited(ErrorExit(eEntry), "error")
                 ELSE Exited(0, "none")
              /\ eSaved' = IF out = "result" THEN eOutput ELSE eSaved
              /\ UNCHANGED <<eSitesLeft, eResults>>
          ELSE IF eSite = "all" THEN
              LET results == IF out = "result" THEN eResults + 1 ELSE eResults IN
              /\ eSitesLeft' = eSitesLeft - 1
              /\ eResults' = results
              /\ UNCHANGED eSaved
              /\ IF eSitesLeft > 1 THEN UNCHANGED <<ePc, eCode, eCause>>
                 ELSE IF results = 0 THEN Exited(0, "none")
                 ELSE /\ ePc' = "save"
                      /\ UNCHANGED <<eCode, eCause>>
          ELSE
              /\ IF out = "error" THEN Exited(ErrorExit(eEntry), "error")
                 ELSE IF out = "empty" THEN Exited(0, "none")
                 ELSE /\ ePc' = "save"
                      /\ UNCHANGED <<eCode, eCause>>
              /\ eSitesLeft' = 0
              /\ eResults' = IF out = "result" THEN 1 ELSE 0
              /\ UNCHANGED eSaved
    /\ UNCHANGED <<eEntry, eRun, eCacheOp, eSite, eOutput>>
    /\ UNCHANGED notExit

\* the summary and save_to_json / save_to_csv of the click commands
main_save ==
    /\ ePc = "save"
    /\ \E out \in SaveOutcomes :
          /\ IF out = "interrupt" THEN Exited(InterruptExit(eEntry), "interrupt")
             ELSE IF out = "error" THEN Exited(ErrorExit(eEntry), "error")
             ELSE Exited(0, "none")
          /\ eSaved' = IF out = "ok" THEN eOutput ELSE eSaved
    /\ UNCHANGED <<eEntry, eRun, eCacheOp, eSite, eOutput, eSitesLeft, eResults>>
    /\ UNCHANGED notExit

ExitInit ==
    /\ eEntry \in Entries
    /\ eRun \in (IF eEntry = "prothomalo" THEN {TRUE} ELSE BOOLEAN)
    /\ eCacheOp \in (IF eEntry = "pkg_cli" THEN {"none", "stats", "clear"} ELSE {"none"})
    /\ eSite \in (IF eEntry = "pkg_cli" THEN {"one", "all"} ELSE {"one"})
    /\ eOutput \in {"json", "csv"}
    /\ eSaved = "none"
    /\ ePc = "start"
    /\ eSitesLeft = IF eSite = "all" THEN Cardinality(ConfiguredSites) ELSE 1
    /\ eResults = 0
    /\ eCause = "none"
    /\ eCode = 0

ExitIdle ==
    /\ eEntry = "idle"
    /\ eRun = FALSE
    /\ eCacheOp = "none"
    /\ eSite = "one"
    /\ eOutput = "json"
    /\ eSaved = "none"
    /\ ePc = "idle"
    /\ eSitesLeft = 0
    /\ eResults = 0
    /\ eCause = "none"
    /\ eCode = 0

ExitNext ==
    \/ main_start
    \/ main_scrape
    \/ main_save

(***************************************************************************)
(* The breadth-first crawl of prothomalo.crawl_for_article_urls.  The      *)
(* pages of the site are CrawlPages; what a page lists (its article links  *)
(* and its links to other pages, discover_links of its HTML) is chosen     *)
(* when the page is fetched: any link graph over CrawlPages, with cycles   *)
(* and self-links, arises this way, because a URL that were fetched twice  *)
(* would show in kFetched whatever it lists.                               *)
(***************************************************************************)
CrawlPages == 1..NGraphPages

NoDepth == [tag |-> "nodepth"]
Depth(d) == [tag |-> "depth", d |-> d]

\* a seed path, and whether it starts with '/'
Seed(page, slash) == [page |-> page, slash |-> slash]
SeedSamples == {<<Seed(1, TRUE)>>,
                <<Seed(1, TRUE), Seed(2, TRUE)>>,
                <<Seed(2, TRUE), Seed(1, TRUE), Seed(2, TRUE)>>,
                <<Seed(3, FALSE), Seed(1, TRUE)>>}

\* queue.append((BASE_URL.rstrip('/') + s, 0)) for the seeds that start
\* with '/'
RECURSIVE SeedQueue(_)
SeedQueue(seeds) ==
    IF seeds = <<>> THEN <<>>
    ELSE IF Head(seeds).slash
         THEN <<<<Head(seeds).page, 0>>>> \o SeedQueue(Tail(seeds))
         ELSE SeedQueue(Tail(seeds))

\* the article URLs that discover_links finds on a page: none, or two of
\* the page's own
ArticleSamples(page) == {{}, {2 * page - 1, 2 * page}}

\* the orders in which `for p in pages` can walk the set `pages`
RECURSIVE Orders(_)
Orders(pages) ==
    IF pages = {} THEN {<<>>}
    ELSE UNION {{<<p>> \o q : q \in Orders(pages \ {p})} : p \in pages}

\* `if url in visited_pages or depth > max_depth: continue`
SkipOnlyDeep(url, depth, visited, max_depth) == depth > max_depth
ShouldSkip(url, depth, visited, max_depth) == url \in visited \/ depth > max_depth

\* `if len(visited_pages) > max_pages: break`
PageBudgetLate(visited, max_pages) == Cardinality(visited) > max_pages + 1
PageBudgetSpent(visited, max_pages) == Cardinality(visited) > max_pages

\* `if limit > 0 and len(article_urls) >= limit * 4: break`
CushionReached(article_urls, limit) ==
    limit > 0 /\ Cardinality(article_urls) >= limit * CRAWL_CAP_FACTOR

\* queue.pop(0): the index of the pair taken, and the queue left
PopLast(queue) == Len(queue)
PopIndex(queue) == 1

KeepQueue(queue, i) == queue
AfterPop(queue, i) == SubSeq(queue, 1, i - 1) \o SubSeq(queue, i + 1, Len(queue))

Popped == kQueue[PopIndex(kQueue)]
Rest == AfterPop(kQueue, PopIndex(kQueue))

\* the pairs (p, depth + 1) appended for the pages of `order` not yet in
\* visited_pages
Enqueued(order, visited, depth) ==
    LET new == SelectSeq(order, LAMBDA p : p \notin visited)
    IN  [i \in 1..Len(new) |-> <<new[i], depth + 1>>]

\* the smallest enqueue depths after `added` has been appended
MinDepthAfter(min_depth, added) ==
    [p \in CrawlPages |->
        IF \E i \in 1..Len(added) : added[i][1] = p
        THEN LET d == (CHOOSE i \in 1..Len(added) : added[i][1] = p)
             IN  IF min_depth[p] = NoDepth \/ added[d][2] < min_depth[p].d
                 THEN Depth(added[d][2]) ELSE min_depth[p]
        ELSE min_depth[p]]

\* a pass that ends at `continue`: the url was visited or lies too deep
crawl_skip ==
    /\ kPc = "loop"
    /\ kQueue # <<>>
    /\ ShouldSkip(Popped[1], Popped[2], kVisited, kMaxDepth)
    /\ kQueue' = Rest
    /\ UNCHANGED <<kLimit, kMaxPages, kMaxDepth, kVisited, kArticleUrls, kPc,
                   kFetched, kMinDepth>>
    /\ UNCHANGED notCrawl

\* a pass that ends at the first `break`: the page budget is spent
crawl_max_pages ==
    /\ kPc = "loop"
    /\ kQueue # <<>>
    /\ ~ShouldSkip(Popped[1], Popped[2], kVisited, kMaxDepth)
    /\ PageBudgetSpent(kVisited \cup {Popped[1]}, kMaxPages)
    /\ kQueue' = Rest
    /\ kVisited' = kVisited \cup {Popped[1]}
    /\ kPc' = "returned"
    /\ UNCHANGED <<kLimit, kMaxPages, kMaxDepth, kArticleUrls, kFetched, kMinDepth>>
    /\ UNCHANGED notCrawl

\* a pass whose request_with_retries returns None: `continue`
crawl_fetch_failed ==
    /\ kPc = "loop"
    /\ kQueue # <<>>
    /\ ~ShouldSkip(Popped[1], Popped[2], kVisited, kMaxDepth)
    /\ ~PageBudgetSpent(kVisited \cup {Popped[1]}, kMaxPages)
    /\ kQueue' = Rest
    /\ kVisited' = kVisited \cup {Popped[1]}
    /\ kFetched' = Append(kFetched, Popped)
    /\ UNCHANGED <<kLimit, kMaxPages, kMaxDepth, kArticleUrls, kPc, kMinDepth>>
    /\ UNCHANGED notCrawl

\* a pass whose request_with_retries returns the page: its articles are
\* added, its pages enqueued when depth < max_depth, and the loop breaks
\* when the cushion is reached
crawl_fetch ==
    /\ kPc = "loop"
    /\ kQueue # <<>>
    /\ ~ShouldSkip(Popped[1], Popped[2], kVisited, kMaxDepth)
    /\ ~PageBudgetSpent(kVisited \cup {Popped[1]}, kMaxPages)
    /\ kVisited' = kVisited \cup {Popped[1]}
    /\ kFetched' = Append(kFetched, Popped)
    /\ \E arts \in ArticleSamples(Popped[1]), pages \in SUBSET CrawlPages :
          \* the order of the walk shows only in the pages that are appended
          \E order \in Orders(pages \ kVisited') :
             LET added == IF Popped[2] < kMaxDepth
                          THEN Enqueued(order, kVisited', Popped[2])
                          ELSE <<>>
             IN  /\ kArticleUrls' = kArticleUrls \cup arts
                 /\ kQueue' = Rest \o added
                 /\ kMinDepth' = MinDepthAfter(kMinDepth, added)
                 /\ kPc' = IF CushionReached(kArticleUrls', kLimit)
                           THEN "returned" ELSE "loop"
    /\ UNCHANGED <<kLimit, kMaxPages, kMaxDepth>>
    /\ UNCHANGED notCrawl

\* `while queue` finds the queue empty: `return article_urls`
crawl_return ==
    /\ kPc = "loop"
    /\ kQueue = <<>>
    /\ kPc' = "returned"
    /\ UNCHANGED <<kLimit, kMaxPages, kMaxDepth, kQueue, kVisited, kArticleUrls,
                   kFetched, kMinDepth>>
    /\ UNCHANGED notCrawl

CrawlInit ==
    /\ kLimit \in {0, CrawlLimit}
    /\ kMaxPages \in 0..NGraphPages
    /\ kMaxDepth \in 0..(NGraphPages - 1)
    /\ \E seeds \in SeedSamples :
          /\ kQueue = SeedQueue(seeds)
          /\ kMinDepth = MinDepthAfter([p \in CrawlPages |-> NoDepth], SeedQueue(seeds))
    /\ kVisited = {}
    /\ kArticleUrls = {}
    /\ kPc = "loop"
    /\ kFetched = <<>>

CrawlIdle ==
    /\ kLimit = 0
    /\ kMaxPages = 0
    /\ kMaxDepth = 0
    /\ kQueue = <<>>
    /\ kMinDepth = <<>>
    /\ kVisited = {}
    /\ kArticleUrls = {}
    /\ kPc = "idle"
    /\ kFetched = <<>>

CrawlNext ==
    \/ crawl_skip
    \/ crawl_max_pages
    \/ crawl_fetch_failed
    \/ crawl_fetch
    \/ crawl_return

(***************************************************************************)
(* Specifications: one per part, the other parts idle.                     *)
(***************************************************************************)
InitFetch == FetchInit /\ TodayIdle /\ PkgIdle /\ DateIdle /\ SitemapIdle /\ CacheIdle /\ ValidIdle /\ RunIdle /\ ExitIdle /\ CrawlIdle
SpecFetch == InitFetch /\ [][FetchNext]_vars

\* the fetch routine keeps running: its sleeps are finite
SpecFetchFair == SpecFetch /\ WF_vars(FetchNext)

InitToday == TodayInit /\ FetchIdle /\ PkgIdle /\ DateIdle /\ SitemapIdle /\ CacheIdle /\ ValidIdle /\ RunIdle /\ ExitIdle /\ CrawlIdle
SpecToday == InitToday /\ [][TodayNext]_vars

InitPkg == PkgInit /\ FetchIdle /\ TodayIdle /\ DateIdle /\ SitemapIdle /\ CacheIdle /\ ValidIdle /\ RunIdle /\ ExitIdle /\ CrawlIdle
SpecPkg == InitPkg /\ [][PkgNext]_vars

InitDate == DateInit /\ FetchIdle /\ TodayIdle /\ PkgIdle /\ SitemapIdle /\ CacheIdle /\ ValidIdle /\ RunIdle /\ ExitIdle /\ CrawlIdle
SpecDate == InitDate /\ [][DateNext]_vars

InitSitemap == SitemapInit /\ FetchIdle /\ TodayIdle /\ PkgIdle /\ DateIdle /\ CacheIdle /\ ValidIdle /\ RunIdle /\ ExitIdle /\ CrawlIdle
SpecSitemap == InitSitemap /\ [][SitemapNext]_vars

InitCache == CacheInit /\ FetchIdle /\ TodayIdle /\ PkgIdle /\ DateIdle /\ SitemapIdle /\ ValidIdle /\ RunIdle /\ ExitIdle /\ CrawlIdle
SpecCache == InitCache /\ [][CacheNext]_vars

InitValid == ValidInit /\ FetchIdle /\ TodayIdle /\ PkgIdle /\ DateIdle /\ SitemapIdle /\ CacheIdle /\ RunIdle /\ ExitIdle /\ CrawlIdle
SpecValid == InitValid /\ [][ValidNext]_vars

InitRun == RunInit /\ FetchIdle /\ TodayIdle /\ PkgIdle /\ DateIdle /\ SitemapIdle /\ CacheIdle /\ ValidIdle /\ ExitIdle /\ CrawlIdle
SpecRun == InitRun /\ [][RunNext]_vars

InitExit == ExitInit /\ FetchIdle /\ TodayIdle /\ PkgIdle /\ DateIdle /\ SitemapIdle /\ CacheIdle /\ ValidIdle /\ RunIdle /\ CrawlIdle
SpecExit == InitExit /\ [][ExitNext]_vars

InitCrawl == CrawlInit /\ FetchIdle /\ TodayIdle /\ PkgIdle /\ DateIdle /\ SitemapIdle /\ CacheIdle /\ ValidIdle /\ RunIdle /\ ExitIdle
SpecCrawl == InitCrawl /\ [][CrawlNext]_vars

\* the crawl keeps running: a pass of the loop ends, since
\* request_with_retries returns after its last attempt
SpecCrawlFair == SpecCrawl /\ WF_vars(CrawlNext)

(***************************************************************************)
(* Properties of the fetch routines (under SpecFetch, SpecFetchFair).      *)
(***************************************************************************)
Is429(i) == fStatuses[i] = 429

\* C4, as stated: with the default retries, when the server answers 429 to
\* the first three requests and would answer 200 to the fourth, the call
\* returns the 200 response.
C4_Original_FourthRequestSucceeds ==
    ( /\ fRoutine = "rwr"
      /\ fRetries = MAX_RETRIES
      /\ fStatuses = <<429, 429, 429>>
      /\ fServer = 200
      /\ fAttempt > 3 )
    => fResult \in {"pending", "resp"}

\* C4, amended: with the default retries request_with_retries issues at most
\* three requests; 429, 429, 200 returns the 200 response; 429, 429, 429
\* returns None although the server would answer the fourth request; and the
\* wait slept after each 429 is strictly larger than the wait slept after
\* every earlier 429 of the call.
C4_BackoffWithinThreeAttempts ==
    fRoutine = "rwr" =>
        /\ \A i, j \in 1..Len(fWaits) :
              (i < j /\ Is429(i) /\ Is429(j)) => fWaits[i] < fWaits[j]
        /\ fRetries = MAX_RETRIES =>
              /\ Len(fStatuses) <= 3
              /\ (fStatuses = <<429, 429, 200>>) => fResult = "resp"
              /\ (fStatuses = <<429, 429, 429>>) =>
                     /\ fResult \in {"pending", "none"}
                     /\ Len(fWaits) = 3

C4_Witness ==
    /\ fRoutine = "rwr"
    /\ fRetries = MAX_RETRIES
    /\ fStatuses = <<429, 429, 200>>
    /\ fResult = "resp"
    /\ Len(fWaits) = 2

\* C5: in every fetch routine a 404 or 410 response is the last request of
\* the call (no GET follows it) and the call ends with a failure result.
C5_PermanentStatusEndsCall ==
    fRoutine # "idle" =>
        \A i \in 1..Len(fStatuses) :
            fStatuses[i] \in {404, 410} =>
                /\ i = Len(fStatuses)
                /\ fResult \in {"pending", "none", "raise"}

\* at most `retries` GETs, no exception, and None when no GET brought a
\* 2xx/3xx response, after which fetch_and_parse returns None
RetriesBounded ==
    fRoutine = "rwr" =>
        /\ Len(fStatuses) <= fRetries
        /\ fAttempt <= fRetries + 1
        /\ fResult \in {"pending", "resp", "none"}
        /\ ( /\ fResult # "pending"
             /\ \A i \in 1..Len(fStatuses) : ~IsSuccess(fStatuses[i]) )
           => /\ fResult = "none"
              /\ fArticle \in {Pending, None}

\* C6: for every sequence of responses and network errors
\* request_with_retries issues at most `retries` GETs, raises nothing, and
\* returns None when no GET brought a 2xx/3xx response; the call always
\* ends, and fetch_and_parse then returns (None when the fetch failed).
C6_RetryExhaustion ==
    /\ []RetriesBounded
    /\ (fRoutine = "rwr") ~> (fArticle # Pending)

C6_Witness ==
    /\ fRoutine = "rwr"
    /\ fRetries = MAX_RETRIES
    /\ fStatuses = <<500, NetError, 429>>
    /\ fResult = "none"
    /\ fArticle = None

(***************************************************************************)
(* Properties of scrape_today (under SpecToday).                           *)
(***************************************************************************)
\* the worklist URLs whose future holds an article
Yielding == {u \in Worklist : tResult[u].tag = "article"}

\* C1: in a non-dry run with limit > 0 the list of articles never holds more
\* than limit articles, whatever the order in which the workers complete, and
\* the returned list holds exactly limit articles when at least limit
\* worklist URLs each yield an article.
C1_HarvestCap ==
    (~tDryRun /\ tLimit > 0 /\ tPc \in {"collect", "shutdown", "returned"}) =>
        /\ Len(tArticles) <= tLimit
        /\ (tPc = "returned" /\ Cardinality(Yielding) >= tLimit)
           => Len(tArticles) = tLimit

C1_Witness ==
    /\ ~tDryRun
    /\ tPc = "returned"
    /\ tLimit = 2
    /\ tWorkers = 2
    /\ Cardinality(Yielding) = 3
    /\ Len(tArticles) = 2

\* C2: once the number of accepted articles has reached limit (limit > 0),
\* no worklist URL whose fetch has not started yet is fetched: every future
\* that is still queued stays queued.
C2_NoFetchStartsAfterCap ==
    [][ (~tDryRun /\ tLimit > 0 /\ Len(tArticles) >= tLimit)
        => \A u \in Worklist : tState[u] = "queued" => tState'[u] = "queued" ]_vars

\* C3: every article that scrape_today returns has a title of at least 5
\* characters and a text of at least 50 characters (its url is one of the
\* absolute candidate URLs by construction).
C3_ReturnedArticlesValid ==
    tPc = "returned" =>
        \A i \in 1..Len(tArticles) :
            /\ tArticles[i].title >= 5
            /\ tArticles[i].text >= 50
            /\ tArticles[i].url \in Urls

\* the instant of a publication date, in hours
Instant(published) == published.day * 24 + published.hour - published.off

\* the returned articles in the order of the worklist: the list `articles`
\* of the run in which the workers complete in the order of submission
InWorklistOrder ==
    LET kept == {tArticles[i].url : i \in 1..Len(tArticles)}
        urls == SelectSeq(tFetchList, LAMBDA u : u \in kept)
    IN  [i \in 1..Len(urls) |-> tResult[urls[i]]]

\* C16: the list that scrape_today returns is in descending order of
\* publication date (an article without a date last), and the order is the
\* same whatever the order in which the workers completed.
C16_SortedByDateDescending ==
    (tPc = "returned" /\ ~tDryRun) =>
        /\ \A i, j \in 1..Len(tArticles) :
              (i < j /\ tArticles[i].published # None /\ tArticles[j].published # None)
              => Instant(tArticles[i].published) >= Instant(tArticles[j].published)
        /\ \A i, j \in 1..Len(tArticles) :
              (i < j /\ tArticles[i].published = None) => tArticles[j].published = None
        /\ tArticles = SortByPublishedDescending(InWorklistOrder)

\* C20: every article that scrape_today returns in a run that is not a dry
\* run has a publication date, and the calendar date of that instant in
\* Asia/Dhaka is the current day.
C20_OnlyArticlesOfToday ==
    (tPc = "returned" /\ ~tDryRun) =>
        \A i \in 1..Len(tArticles) :
            /\ tArticles[i].published # None
            /\ DhakaDay(tArticles[i].published) = TodayBD

\* the articles held by the futures that the calling thread has consumed
ConsumedArticles == {tResult[u] : u \in {v \in tConsumed : tResult[v].tag = "article"}}

\* C27: in the fetch phase a step of a pool thread leaves the list
\* `articles` and its count alone; only the calling thread, consuming a
\* completed future, changes them, so that whatever the interleaving the
\* list holds the article of every consumed future that brought one, each
\* once.
C27_SingleWriter ==
    /\ [][(tPc \in {"collect", "shutdown"} /\ tState' # tState) =>
            (tArticles' = tArticles /\ tConsumed' = tConsumed)]_vars
    /\ []((~tDryRun /\ tPc \in {"collect", "shutdown", "returned"}) =>
            /\ {tArticles[i] : i \in 1..Len(tArticles)} = ConsumedArticles
            /\ Len(tArticles) = Cardinality(ConsumedArticles))

C27_Witness ==
    /\ tPc = "collect"
    /\ Len(tArticles) >= 1
    /\ Cardinality(Running) = 2

(***************************************************************************)
(* Properties of the sequential harvest (under SpecPkg).                   *)
(***************************************************************************)
\* C7: scrape_articles of the package ends with an exception only when the
\* fetch of the first seed (the homepage) failed; a failed section page or
\* article page is skipped.
C7_OnlyFirstSeedAborts ==
    (pImpl = "mk_base" /\ pPc = "raised") => pFailed = "home"

\* C8: no article with a placeholder title or a placeholder body is in the
\* list that scrape_articles collects.
C8_NoPlaceholderArticle ==
    pPc \in {"loop", "returned"} =>
        \A i \in 1..Len(pArticles) :
            /\ ~pArticles[i].title.placeholder
            /\ ~pArticles[i].content.placeholder

\* C21: in scrape_articles of either scraper class the links that the
\* harvest loop may attempt number min(discovered links, 3 * limit) when
\* limit > 0, so that at most 3 * limit calls of scrape_article are made;
\* with limit = 0 they are all the discovered links.
C21_WorklistCushion ==
    pPc \in {"loop", "returned"} =>
        /\ Len(pLinks) = IF pLimit > 0 THEN Min(pFound, PKG_MULTIPLIER * pLimit)
                         ELSE pFound
        /\ pLimit > 0 => Len(pCalls) <= PKG_MULTIPLIER * pLimit

\* C22: the ScrapingResult of scrape_single_site counts in total_valid the
\* valid articles kept, and total_valid is below total_found whenever a link
\* that the harvest loop attempted brought no valid article.
C22_ReportedCounts ==
    (pPc = "reported" /\ pResult # None) =>
        /\ pResult.total_valid = Len(pResult.articles)
        /\ pSkipped # {} => pResult.total_valid < pResult.total_found

\* C28: with limit > 0 scrape_articles returns at most limit articles and
\* calls scrape_article no more once limit articles are accepted; with
\* limit = 0 it calls scrape_article once for every link of
\* get_article_links, in the order of the list.
C28_SequentialCap ==
    /\ [](pPc \in {"returned", "reported"} =>
            /\ pLimit > 0 => Len(pArticles) <= pLimit
            /\ pLimit = 0 => (pCalls = pLinks /\ Len(pLinks) = pFound))
    /\ [][pCalls' # pCalls => ~(pLimit > 0 /\ Len(pArticles) >= pLimit)]_vars

C28_Witness ==
    /\ pPc = "returned"
    /\ pLimit = 1
    /\ Len(pArticles) = 1
    /\ Len(pCalls) = 2
    /\ Len(pLinks) > 2

C9_BengaliDateToIso ==
    dResult.tag \in {"iso", "now"} =>
        dResult = Iso(IsoDateText(dDay, dMonth, dYear, dTime))

(***************************************************************************)
(* Properties of gather_articles_from_sitemaps (under SpecSitemap).        *)
(***************************************************************************)
\* C10: every URL of the returned set is a loc that a sitemap entry dates
\* (news:publication_date, else lastmod) on the current day in Asia/Dhaka.
C10_ReturnedLocsDatedToday ==
    sPc = "returned" => sArticleUrls \subseteq sDatedToday

(***************************************************************************)
(* Properties of ArticleCache (under SpecCache).                           *)
(***************************************************************************)
\* the file of `url` has been damaged since set() wrote it
Damaged(url) ==
    /\ cFiles[get_cache_key(url)] # NoFile
    /\ cFiles[get_cache_key(url)].kind \in DamageKinds

\* C11: with caching enabled, a get(url) made after set(url, article), before
\* the TTL has elapsed since that set and with no clear() in between, returns
\* an Article equal to the stored one in every field; the article is the one
\* of the latest set for url, whatever was set for other urls.
C11_CacheRoundTrip ==
    ( /\ cOp.op = "get"
      /\ cEnabled
      /\ cLast[cOp.url] # None
      /\ cNow - cLast[cOp.url].at < cDuration
      /\ ~Damaged(cOp.url) )
    => cOp.result = cLast[cOp.url].article

C11_Witness ==
    /\ cOp.op = "get"
    /\ cOp.result = ArticleOf(cOp.url, 1, 0)
    /\ cNow = TickHours
    /\ cDuration = CACHE_DURATION_HOURS
    /\ \E u \in CacheUrls \ {cOp.url} :
          cLast[u] # None /\ cLast[u].at > cLast[cOp.url].at

\* C12: get(url) returns an article only if a file for url exists and was
\* last written less than the TTL ago; for a url with no file, or with a
\* file whose age is the TTL or more, get returns None.
C12_CacheExpiryAndMiss ==
    cOp.op = "get" =>
        LET file == cFiles[get_cache_key(cOp.url)] IN
        /\ cOp.result.tag = "article"
           => (file # NoFile /\ cNow - file.mtime < cDuration)
        /\ (file = NoFile \/ cNow - file.mtime >= cDuration)
           => cOp.result = None

C12_Witness ==
    /\ cEnabled
    /\ cOp.op = "get"
    /\ cOp.result = None
    /\ cFiles[get_cache_key(cOp.url)] # NoFile
    /\ cFiles[get_cache_key(cOp.url)].kind = "json"
    /\ cNow - cFiles[get_cache_key(cOp.url)].mtime = cDuration

\* C13: a get(url) that finds an unexpired file which cannot be turned into
\* an Article returns None without raising, removes that file, and leaves
\* the files of the other urls as they were.
C13_CorruptEntryDropped ==
    [][\A u \in CacheUrls :
          ( /\ get(u)
            /\ cEnabled
            /\ is_cache_valid(cFiles, get_cache_key(u), cNow, cDuration)
            /\ Damaged(u) )
          => /\ cOp'.result = None
             /\ cFiles'[get_cache_key(u)] = NoFile
             /\ \A k \in CacheKeys \ {get_cache_key(u)} : cFiles'[k] = cFiles[k]]_vars

\* C14: clear() returns the number of entries stored, one per url that was
\* set, and leaves no file; a get(url) after it, with no new set for url,
\* returns None.
C14_ClearEmptiesCache ==
    /\ cOp.op = "clear"
       => /\ cOp.result = Cardinality(cOp.stored)
          /\ \A k \in CacheKeys : cFiles[k] = NoFile
    /\ (cOp.op = "get" /\ cLast[cOp.url] = None) => cOp.result = None

C14_Witness ==
    /\ cOp.op = "clear"
    /\ cOp.stored = CacheUrls
    /\ cOp.result = Cardinality(CacheUrls)
    /\ cNow > cDuration

(***************************************************************************)
(* Properties of Article.is_valid (under SpecValid).                       *)
(***************************************************************************)
\* an absolute http/https URL: the scheme is http or https, a host follows
\* it, and no blank is in it
IsAbsoluteHttpUrl(url) ==
    /\ url # None
    /\ url.scheme \in {"http", "https"}
    /\ url.host # ""
    /\ url.path # "/p q"

\* C15: is_valid() is true exactly when the trimmed title has at least 5
\* characters, the trimmed content has at least 50 characters and the url is
\* an absolute http/https URL.
C15_ValidIffThreeConditions ==
    vPc = "checked" =>
        ( vValid <=> /\ vTitle # None /\ vTitle.len >= MIN_TITLE_LEN
                     /\ vContent # None /\ vContent.len >= MIN_CONTENT_LEN
                     /\ IsAbsoluteHttpUrl(vUrl) )

(***************************************************************************)
(* Properties of the requests and sleeps of scrape_today (under SpecRun).  *)
(***************************************************************************)
DiscoveryPhases == {"seeds", "crawl", "sitemap"}

\* C17: no fetch_and_parse starts before every discovery phase that the mode
\* selects has returned; once one has started, no discovery request is
\* issued and candidate_urls does not change.
C17_DiscoveryBeforeFetch ==
    /\ [](RunStarted # {} =>
            \A phase \in DiscoveryPhases : Selected(phase, rMode) => phase \in rDone)
    /\ [][RunStarted # {} =>
            /\ rCandidates' = rCandidates
            /\ \A g \in rGets' \ rGets : g.phase = "article"]_vars

C17_Witness ==
    /\ rMode = "hybrid"
    /\ rDone = DiscoveryPhases
    /\ \E u \in DOMAIN rState : rState[u] = "running"
    /\ \E u \in DOMAIN rState : rState[u] = "done"
    /\ {g.phase : g \in rGets} = {"robots", "seeds", "crawl", "sitemap_robots", "sitemap", "article"}

\* C18: every GET of the pipeline (robots.txt, seed scan, crawl, sitemaps,
\* article fetches, retries included) comes directly after a politeness
\* sleep of its thread, drawn from [min_delay, max_delay].
C18_EveryGetAfterPoliteSleep ==
    \A g \in rGets : g.before = "polite"

\* the strategies of each mode, as the --mode option describes them
StrategiesOf(mode) ==
    IF mode = "simple" THEN {"seeds"}
    ELSE IF mode = "crawl" THEN {"crawl"}
    ELSE IF mode = "sitemap" THEN {"sitemap"}
    ELSE DiscoveryPhases

\* the strategy that a discovery GET belongs to
StrategyOfGet(g) == IF g.phase = "sitemap_robots" THEN "sitemap" ELSE g.phase

\* C26: 'simple' runs only the seed scan, 'crawl' only the breadth-first
\* crawl, 'sitemap' only the sitemap harvest and 'hybrid' all three: exactly
\* these strategies have run when discovery is over, no request of another
\* strategy is issued, and candidate_urls only grows, by the whole result of
\* each strategy run.
C26_ModeSelectsStrategies ==
    /\ [](\A g \in rGets :
            g.phase \notin {"robots", "article"} => StrategyOfGet(g) \in StrategiesOf(rMode))
    /\ [](rPc \in {"submit", "collect"} => rDone = StrategiesOf(rMode))
    /\ [][/\ rCandidates \subseteq rCandidates'
          /\ rCandidates' # rCandidates => rPc \in {"seeds", "crawl", "sitemaps"}
          /\ (rPc = "crawl" /\ rPc' # "crawl") => rCrawlUrls \subseteq rCandidates'
          /\ (rPc = "sitemaps" /\ rPc' # "sitemaps") => rSitemapUrls \subseteq rCandidates']_vars

(***************************************************************************)
(* Properties of the command entry points (under SpecExit).                *)
(***************************************************************************)
\* C19: a run that nothing interrupts and in which no error reaches the
\* handler of main exits 0; a run ended by KeyboardInterrupt exits with a
\* status that is neither 0 nor the status of an unhandled error; a run
\* ended by an unhandled error exits with a status other than 0.
C19_ExitStatus ==
    ePc = "exited" =>
        /\ eCause = "none" => eCode = 0
        /\ eCause = "interrupt" => (eCode # 0 /\ eCode # ErrorExit(eEntry))
        /\ eCause = "error" => eCode # 0

(***************************************************************************)
(* Properties of crawl_for_article_urls (under SpecCrawl, SpecCrawlFair).  *)
(***************************************************************************)
\* the pair handed to request_with_retries in the step, when there is one
FetchedNow == kFetched'[Len(kFetched')]

\* the pairs appended to the queue in a pass of the loop
AppendedNow == SubSeq(kQueue', Len(kQueue), Len(kQueue'))

\* C23: in one crawl no page URL is fetched twice and no page deeper than
\* max_depth is fetched; a pass appends to the queue only the pages found on
\* a fetched page of depth d < max_depth, and appends them with depth d + 1.
C23_CrawlBounds ==
    /\ [](/\ \A i, j \in 1..Len(kFetched) : i # j => kFetched[i][1] # kFetched[j][1]
          /\ \A i \in 1..Len(kFetched) : kFetched[i][2] <= kMaxDepth)
    /\ [][(kQueue # <<>> /\ Len(kQueue') >= Len(kQueue)) =>
            /\ kFetched' # kFetched
            /\ FetchedNow[2] < kMaxDepth
            /\ \A i \in 1..Len(AppendedNow) : AppendedNow[i][2] = FetchedNow[2] + 1]_vars

C23_Witness ==
    /\ kPc = "returned"
    /\ kMaxDepth >= 1
    /\ Len(kFetched) = NGraphPages
    /\ kFetched[Len(kFetched)][2] = kMaxDepth
    /\ kQueue # <<>>

\* C24: at most max_pages pages are fetched, failed fetches counted: no
\* fetch is issued when the visited pages would exceed max_pages, and none
\* once the article URLs number 4 * limit with limit > 0.
C24_CrawlStops ==
    /\ [](Len(kFetched) <= kMaxPages)
    /\ [][kFetched' # kFetched =>
            /\ Cardinality(kVisited') <= kMaxPages
            /\ ~(kLimit > 0 /\ Cardinality(kArticleUrls) >= kLimit * CRAWL_CAP_FACTOR)]_vars

C24_Witness ==
    /\ kPc = "returned"
    /\ kMaxPages >= 2
    /\ Len(kFetched) = kMaxPages
    /\ Cardinality(kVisited) > kMaxPages
    /\ kQueue # <<>>

\* C25: the pages are fetched in non-decreasing order of depth, and the
\* depth of a fetched page is the smallest depth it was enqueued with.
C25_LayerOrder ==
    /\ \A i, j \in 1..Len(kFetched) : i < j => kFetched[i][2] <= kFetched[j][2]
    /\ \A i \in 1..Len(kFetched) : kFetched[i][2] = kMinDepth[kFetched[i][1]].d

C25_Witness ==
    /\ kPc = "returned"
    /\ Len(kFetched) = 3
    /\ kFetched[1][2] = 0
    /\ kFetched[2][2] = 1
    /\ kFetched[3][2] = 2

\* C30: the crawl returns, whatever the pages link to; a page whose fetch
\* failed or brought nothing leaves the loop running on the rest of the
\* queue.
C30_CrawlReturns ==
    /\ <>(kPc = "returned")
    /\ [][(kFetched' # kFetched
            /\ ~(kLimit > 0 /\ Cardinality(kArticleUrls') >= kLimit * CRAWL_CAP_FACTOR))
           => kPc' = "loop"]_vars

C30_Witness ==
    /\ kPc = "returned"
    /\ Len(kFetched) >= 2
    /\ kArticleUrls = {}
    /\ kQueue = <<>>

====
